---------------------------- MODULE MCJudgeReads ----------------------------
EXTENDS JudgeReads

CONSTANTS k1, k2, ann, bob

\* Three rows on two days' notice, one with two mentions, and two free places
\* before and among them.
Submission(owner, text) ==
  [key |-> k1, of |-> owner, kind |-> "PENDING", at |-> 0, judged |-> Null, text |-> text]
LogOf(owner, text) ==
  [key |-> Null, of |-> owner, kind |-> "ERROR", at |-> 0, judged |-> Null, text |-> text]

First1 ==
  [submissions |-> [i \in Ids |-> IF i \in {1, 3} THEN Submission(ann, 1) ELSE NoRow],
   logs |-> [i \in Ids |-> CASE i = 1 -> LogOf(ann, 2) [] i = 2 -> LogOf(bob, 1)
                              [] i = 4 -> LogOf(ann, 1) [] OTHER -> NoRow],
   documents |-> [i \in Ids |-> IF i = 3 THEN NoRow
                               ELSE [LogOf(ann, IF i = 1 THEN 2 ELSE 1) EXCEPT !.kind = "any"]]]

Bodies1 == [submissions |-> {[key |-> k1, of |-> ann, kind |-> "ACCEPTED"],
                             [key |-> k2, of |-> bob, kind |-> "ACCEPTED"]},
            logs |-> {[key |-> Null, of |-> ann, kind |-> "HEARTBEAT"],
                      [key |-> Null, of |-> bob, kind |-> "HEARTBEAT"]},
            documents |-> {[key |-> Null, of |-> ann, kind |-> "any"]}]

Times1 == {<<0, Null>>, <<NoTime, 0>>}

JudgesAreAlike == Permutations(Updaters)
=============================================================================
