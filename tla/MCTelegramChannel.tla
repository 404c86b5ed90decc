------------------------- MODULE MCTelegramChannel -------------------------
(* Small instances of TelegramChannel. *)
EXTENDS TelegramChannel, TLC

CONSTANTS u1, u2, c1, c2, e1, e2, w1, w2, r1, r2, b1, b2

Granted(r, b) == [runner |-> r, bot |-> b]
OneWorker == w1 :> Granted(r1, b1)
OneRunner == OneWorker @@ (w2 :> Granted(r1, b1))
TwoBots == OneWorker @@ (w2 :> Granted(r2, b2))

Site(grant, users, until, fences, messages) ==
    [grant |-> grant, users |-> users, until |-> until, fences |-> fences,
     messages |-> messages]
AllSites == {Site(OneWorker, {u1, u2}, 1, 2, 2), Site(OneWorker, {u1}, 2, 3, 2),
             Site(OneRunner, {u1}, 1, 2, 1), Site(TwoBots, {u1}, 1, 2, 1),
             Site(OneRunner, {}, 2, 3, 0)}
OneWorkerSite == {Site(OneWorker, {u1, u2}, 1, 2, 2)}
OneAttempt == <<1>>
=============================================================================
