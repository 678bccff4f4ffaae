---------------------------- MODULE MCCheckStream ----------------------------
(***************************************************************************)
(* Instances of CheckStream: files of up to three records, whose second    *)
(* fields are missing, empty, equal or different; the longest one does not *)
(* fit the first buffer.                                                   *)
(***************************************************************************)
EXTENDS CheckStream

\* Byte 1 separates fields.
SixRecords ==
  {<<>>, <<2>>, <<2, 1, 2>>, <<3, 1, 2>>, <<2, 1, 3>>, <<1, 3, 1, 2>>}

UpToThree == UNION {[1 .. n -> SixRecords] : n \in 0 .. 3}

Option(engine, u, s, r, kr) ==
  [engine |-> engine, unique |-> u, stable |-> s, reverse |-> r, key_reverse |-> kr]

\* No option, -r, -u; then with -k2,2: nothing, -s, -u, -r, -s -k2,2r.
SomeOptions ==
  {Option("bytes", FALSE, FALSE, FALSE, FALSE),
   Option("bytes", TRUE, FALSE, TRUE, FALSE)}
    \cup {Option(e, FALSE, FALSE, FALSE, FALSE) : e \in {"key", "general"}}
    \cup {Option(e, TRUE, FALSE, FALSE, FALSE) : e \in {"key", "general"}}
    \cup {Option("key", FALSE, TRUE, FALSE, TRUE),
          Option("general", FALSE, FALSE, TRUE, TRUE)}

=============================================================================
