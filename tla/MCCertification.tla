--------------------------- MODULE MCCertification ---------------------------
(***************************************************************************)
(* Two policies and four documents: a log, its correction with a second    *)
(* requirement, a log of the other policy, and a log that was ingested for *)
(* both.  What a certifier says of a row is good or bad.                   *)
(***************************************************************************)
EXTENDS Certification

CONSTANTS p1, p2, a, b, r1, r2

Good == [schema |-> "pass", executor |-> "pass"]
Bad == [schema |-> "pass", executor |-> "fail"]

Doc(eid, policy, content) == [eid |-> eid, policy |-> policy, content |-> content]

\* A log with provenance that passes, and its correction that does not.
Corrected == {Doc(a, p1, [q \in {r1} |-> Good]),
              Doc(a, p1, [q \in {r1, r2} |-> IF q = r1 THEN Bad ELSE Good])}

\* One evidence id that two policies refer to.
Shared == {Doc(b, p1, [q \in {r1} |-> Good]), Doc(b, p2, [q \in {r1} |-> Bad])}

AllLogs == Corrected \cup Shared
TwoLogs == {Doc(a, p1, [q \in {r1} |-> Good]), Doc(b, p1, [q \in {r1} |-> Good])}

===============================================================================
