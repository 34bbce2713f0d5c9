------------------------------- MODULE Files --------------------------------
(***************************************************************************)
(* What regular files promise: a file is the bytes that were written, and  *)
(* zeros where nothing was.                                                *)
(***************************************************************************)
EXTENDS Integers, Sequences

CONSTANTS File,
          Byte(_), Sizes(_),  \* what is written to a file, and how much at once
          MaxSize

VARIABLES content,    \* for each file, its bytes
          pos         \* for each file, where its descriptor stands

vars == <<content, pos>>

Init == content = [i \in File |-> <<>>] /\ pos = [i \in File |-> 0]

\* bytes at position at of old; the file grows with zeros if it does not come that far.
Overwritten(old, at, bytes) ==
  LET size == IF Len(old) > at + Len(bytes) THEN Len(old) ELSE at + Len(bytes)
  IN  [k \in 1 .. size |->
         IF k > at /\ k <= at + Len(bytes) THEN bytes[k - at]
         ELSE IF k <= Len(old) THEN old[k] ELSE 0]

\* A disk that is full, or a bad address, may end a write early.
Write(i, bytes) ==
  /\ pos' = [pos EXCEPT ![i] = @ + Len(bytes)]
  /\ content' = [content EXCEPT ![i] = Overwritten(@, pos[i], bytes)]

\* A read, of what there is from pos[i] on, only moves the descriptor, as lseek(2) does.
Move(i, to) == pos' = [pos EXCEPT ![i] = to] /\ UNCHANGED content

Truncate(i) ==
  /\ UNCHANGED pos
  /\ content' = [content EXCEPT ![i] = <<>>]

Next ==
  \E i \in File :
    \/ \E to \in 0 .. MaxSize : Move(i, to)
    \/ Truncate(i)
    \/ \E b \in Byte(i), size \in Sizes(i) : \E n \in 0 .. size : Write(i, [k \in 1 .. n |-> b])

Spec == Init /\ [][Next]_vars
=============================================================================
