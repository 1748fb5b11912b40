------------------------- MODULE MCThreadShutdown -------------------------
(* Small instances of ThreadShutdown for TLC: a main thread and two others. *)
EXTENDS ThreadShutdown

CONSTANTS A, B

\* No two threads stop one another.
Downwards == {<<Main, A>>, <<Main, B>>, <<A, B>>}
\* Any thread stops any background thread but itself.
AnyOther == {<<t, u>> \in Threads \X (Threads \ {Main}) : t # u}
\* Any thread waits for a runnable on any thread, also on itself.
Anywhere == Threads \X Threads
\* A thread waits for the one that stops it.
Upwards == {<<A, Main>>, <<B, A>>}
=============================================================================
