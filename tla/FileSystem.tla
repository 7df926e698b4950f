----------------------------- MODULE FileSystem -----------------------------
(***************************************************************************)
(* What the file-backed stores use of files. Every request of a store runs *)
(* in a worker thread (asyncio.to_thread) and no lock is taken, so another *)
(* thread may act between any two of its system calls. Contents are small: *)
(* one read or one write moves all of it. write_text is two calls: open,   *)
(* which empties the file, and the write, at offset 0 of the opened file,  *)
(* whatever name it has by then.                                           *)
(***************************************************************************)

CONSTANT Requests  \* the requests of a run, each made once

NoFile == [kind |-> "none"]
Empty == [kind |-> "empty"]
Torn == [kind |-> "torn"]         \* the end of one text after another one
Whole(x) == [kind |-> "whole", data |-> x]
IsWhole(f) == f.kind = "whole"

\* x written at offset 0 of a file that holds f: when another writer has filled the
\* file in between with a longer text, the end of that text remains.
WrittenOver(f, x) == IF f = Empty THEN {Whole(x)} ELSE {Whole(x), Torn}

\* A request: the operation and its arguments, where its thread is, what it has read
\* and what it was answered.
NoRequest == [op |-> "none", at |-> "new", answer |-> "none"]
Open(req, r) == req[r].at \notin {"new", "done"}
Done(rec, status) == [rec EXCEPT !.at = "done", !.answer = status]
=============================================================================
