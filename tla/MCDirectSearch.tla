--------------------------- MODULE MCDirectSearch ---------------------------
EXTENDS DirectSearch

CONSTANTS w1, w2

Match(bytes, chunk) == [bytes |-> bytes, chunk |-> chunk]
File(results, ending, big) ==
  [results |-> results, ending |-> ending, big |-> big]

(* Two matches on a line and one on the next; a heavy match and a light;   *)
(* one match or none and an early end; a match in the path and one in the  *)
(* content.  Small files are searched by the calling thread, big ones by   *)
(* the pool.                                                               *)
TwoLines    == <<Match(1, 1), Match(1, 1), Match(1, 2)>>
OneMatch    == <<Match(1, 1)>>
Heavy       == <<Match(3, 1), Match(1, 2)>>
PathAndLine == <<Match(1, 0), Match(1, 1)>>

Kinds == {File(TwoLines, "continue", big) : big \in BOOLEAN}
           \cup {File(Heavy, "continue", big) : big \in BOOLEAN}
           \cup {File(OneMatch, "stop", TRUE), File(OneMatch, "throw", TRUE),
                 File(PathAndLine, "throw", FALSE), File(<<>>, "stop", FALSE)}

(* For a global limit below the matches of one file. *)
CrowdedKinds == {File(TwoLines, "continue", big) : big \in BOOLEAN}
                  \cup {File(OneMatch, "throw", big) : big \in BOOLEAN}
                  \cup {File(OneMatch, "continue", FALSE),
                        File(PathAndLine, "continue", FALSE),
                        File(Heavy, "stop", FALSE)}

(* A file with more matches than its event queue has room for. *)
LongKinds == {File(<<Match(1, 1), Match(1, 2)>>, "continue", TRUE)}

ShortKinds == {File(OneMatch, "continue", TRUE)}
=============================================================================
