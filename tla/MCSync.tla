------------------------------- MODULE MCSync -------------------------------
(* Small instances of Sync: two repositories and the sessions between them. *)
EXTENDS Sync

CONSTANTS a, b, c, d, e, f, k

Members(cluster, listed) == [x \in Artifact |-> IF x = cluster THEN listed ELSE {}]

Both == [push |-> TRUE, pull |-> TRUE, private |-> FALSE]
PushOnly == [push |-> TRUE, pull |-> FALSE, private |-> FALSE]
BothPrivate == [push |-> TRUE, pull |-> TRUE, private |-> TRUE]

Committer == [push |-> TRUE, pull |-> TRUE, private |-> FALSE]

(* Artifacts that were stored one by one and never clustered.               *)
Loose(s) == [real |-> s, phantom |-> {}, unclustered |-> s, private |-> {},
             tagged |-> {}]

(* Commits at both ends, artifacts that arrive meanwhile, and k, which is   *)
(* shunned at the server and not yet purged.                                *)
TwoWay ==
    [members |-> Members(k, {}), client |-> Loose({a, c}), server |-> Loose({b, e, k}),
     unsent |-> {a}, shunClient |-> {}, shunServer |-> {k},
     lateClient |-> {d}, lateServer |-> {f}, modes |-> {Both, PushOnly},
     users |-> {Committer}, maxGimmeBase |-> 1, maxFailures |-> 1]

(* The client keeps e private.  The server's public cluster k lists its     *)
(* private c, and d, which it has itself never received.                    *)
ListedSecret ==
    [members |-> Members(k, {c, d}),
     client |-> [Loose({a, e}) EXCEPT !.private = {e}],
     server |-> [real |-> {b, c, k}, phantom |-> {d}, unclustered |-> {b, k},
                 private |-> {c}, tagged |-> {k}],
     unsent |-> {a}, shunClient |-> {}, shunServer |-> {},
     lateClient |-> {}, lateServer |-> {f}, modes |-> {BothPrivate},
     users |-> {Committer, [Committer EXCEPT !.private = TRUE]},
     maxGimmeBase |-> 2, maxFailures |-> 0]

(* Each side keeps one artifact private, and a session is interrupted.      *)
StoppedSecret ==
    [members |-> Members(k, {}),
     client |-> [Loose({a, e}) EXCEPT !.private = {e}],
     server |-> [Loose({b, c}) EXCEPT !.private = {c}],
     unsent |-> {a}, shunClient |-> {}, shunServer |-> {},
     lateClient |-> {}, lateServer |-> {f}, modes |-> {Both, BothPrivate},
     users |-> {[Committer EXCEPT !.private = TRUE]},
     maxGimmeBase |-> 2, maxFailures |-> 1]

(* An empty client and a cluster that is announced in place of its member.  *)
Clustered ==
    [members |-> Members(k, {c}), client |-> Loose({}),
     server |-> [real |-> {c, k}, phantom |-> {}, unclustered |-> {k},
                 private |-> {}, tagged |-> {k}],
     unsent |-> {}, shunClient |-> {}, shunServer |-> {},
     lateClient |-> {}, lateServer |-> {}, modes |-> {Both},
     users |-> {Committer}, maxGimmeBase |-> 1, maxFailures |-> 1]

CommitsAndSecrets == {TwoWay, ListedSecret, StoppedSecret}
InterruptedPull == {Clustered}
=============================================================================
