------------------------------- MODULE Tasks -------------------------------
(***************************************************************************)
(* The vocabulary in which the threads of ss928sdk/common and of the NPU   *)
(* samples are written down: a thread is the sequence of its calls.  A     *)
(* call that fails goes on at the mark its "land" names: Ret is the        *)
(* return, On the next call (the result is ignored).  An object (a frame,  *)
(* a buffer, a file, a thread not yet joined) is a pair of a kind and an   *)
(* index; marks, flags and calls are named the same way.                   *)
(***************************************************************************)
EXTENDS Naturals, Sequences, SequencesExt

Ret == <<"ret", 0>>
On  == <<"on", 0>>

Instr(op, objs, name, land) == [op |-> op, objs |-> objs, name |-> name, land |-> land]

Take(h, land)        == Instr("take", {h}, h, land)
Retake(h, land)      == Instr("take", {h}, <<"again", h[2]>>, land)   \* its failure has a name of its own
Local(h)             == Instr("local", {h}, h, On)    \* a variable of the function
Give(h, land)        == Instr("give", {h}, h, land)
Drop(h)              == Instr("drop", {h}, h, On)     \* "if (p) { free(p); p = NULL; }"
Free(h)              == Instr("free", {h}, h, On)     \* free(p): cannot fail, p stays
Null(h)              == Instr("null", {h}, h, On)     \* p = NULL
Try(name, land)      == Instr("call", {}, <<name, 0>>, land)
Use(objs, name, land) == Instr("call", objs, <<name, 0>>, land)

\* The call for slot or channel k.
Of(k, call) == [call EXCEPT !.name[2] = k]

Loop == <<"loop", 0>>                     \* the mark of a thread's loop

Mark(l)       == Instr("mark", {}, l, On)
Jump(l)       == Instr("jump", {}, l, l)
Fork(l)       == Instr("fork", {}, l, l)              \* what comes in decides
IfSet(h, l)   == Instr("ifset", {h}, h, l)            \* if the pointer is NULL, go to l
While(f, l)   == Instr("while", {}, f, l)             \* if the flag is down, go to l
Raise(f)      == Instr("raise", {}, f, On)
Lower(f)      == Instr("lower", {}, f, On)
Key           == Instr("key", {}, <<"key", 0>>, On)

Thread(t)       == <<"thread", t>>
Create(t, land) == Instr("create", {Thread(t)}, Thread(t), land)
Cancel(t)       == Instr("cancel", {}, Thread(t), On)
Join(t)         == Instr("join", {Thread(t)}, Thread(t), On)

\* for (i = 0; i < n; i++): the bodies one after the other.
For(bodies) == FlattenSeq(bodies)

\* "start = TRUE; pthread_create(...)" and "if (start) { start = FALSE; join; }"
StartThread(flag, t, land) == <<Raise(flag), Create(t, land)>>
StopThread(flag, t) == <<While(flag, <<"stopped", t>>), Lower(flag), Join(t), Mark(<<"stopped", t>>)>>
=============================================================================
