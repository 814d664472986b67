------------------------------ MODULE PlainFile ------------------------------
(***************************************************************************)
(* What a file handle promises to a program that awaits every call: the    *)
(* calls behave as those of an ordinary file object that has no cache of   *)
(* the file size.  A read or write takes its place when it is called and   *)
(* touches the file when it ends; a position call takes effect at once.    *)
(***************************************************************************)
EXTENDS FileBytes

CONSTANTS
  Ops,       \* calls
  Sizes,     \* byte counts a call may ask for
  Places,    \* offsets a call may name
  Start,     \* the content when it was opened
  Hole       \* a byte that was never written

VARIABLES appends,  \* the file was opened for appending
          content,  \* the bytes of the file
          cursor,   \* the file position
          turn,     \* the read or write in progress
          answer    \* the bytes the last call has transferred

fileVars == <<appends, content, cursor, turn, answer>>

Free == [kind |-> "none", at |-> 0, len |-> 0, op |-> Hole]

\* How much a read of `size' bytes at `at' finds.
Found(at, size) ==
  LET left == Most(0, Len(content) - at)
  IN  IF size = ToEof THEN left ELSE Least(size, left)

Init == /\ appends \in BOOLEAN
        /\ content = Start
        /\ cursor = IF appends THEN Len(Start) ELSE 0
        /\ turn = Free
        /\ answer = <<>>

\* A call starts: the answer of the previous one has been taken.
Begin(kind, at, n, o) ==
  /\ turn = Free
  /\ turn' = IF n = 0 THEN Free ELSE [kind |-> kind, at |-> at, len |-> n, op |-> o]
  /\ answer' = <<>>
  /\ UNCHANGED content

BeginRead(o) == \E size \in Sizes \union {0, ToEof} :
  /\ Begin("read", cursor, Found(cursor, size), o)
  /\ cursor' = cursor + Found(cursor, size)

BeginReadAt(o) == \E size \in Sizes \union {ToEof}, at \in Places :
  /\ Begin("read", at, Found(at, size), o)
  /\ UNCHANGED cursor

BeginWrite(o) ==
  LET at == IF appends THEN Len(content) ELSE cursor
  IN  \E n \in Sizes : /\ Begin("write", at, n, o)
                       /\ cursor' = at + n

BeginWriteAt(o) ==
  /\ ~appends
  /\ \E n \in Sizes, at \in Places : Begin("write", at, n, o)
  /\ UNCHANGED cursor

EndRead ==
  /\ turn.kind = "read"
  /\ answer' = Slice(content, turn.at, turn.len)
  /\ turn' = Free
  /\ UNCHANGED <<content, cursor>>

EndWrite ==
  LET bytes == [i \in 1..turn.len |-> turn.op]
  IN  /\ turn.kind = "write"
      /\ content' = Overlay(content, turn.at, bytes, Hole)
      /\ answer' = bytes
      /\ turn' = Free
      /\ UNCHANGED cursor

\* The system call fails: nothing was transferred.
EndFailed == /\ turn # Free
             /\ turn' = Free
             /\ UNCHANGED <<content, cursor, answer>>

Seek == /\ turn = Free
        /\ \E d \in Places, base \in {0, cursor, Len(content)} :
             cursor' \in {base + d, base - d} \intersect Nat
        /\ answer' = <<>>
        /\ UNCHANGED <<content, turn>>

Truncate == /\ turn = Free
            /\ \E n \in Places : /\ content' = Resize(content, n, Hole)
                                 /\ cursor' = Least(cursor, n)
            /\ answer' = <<>>
            /\ UNCHANGED turn

Next == \/ \E o \in Ops : \/ BeginRead(o) \/ BeginReadAt(o)
                          \/ BeginWrite(o) \/ BeginWriteAt(o)
        \/ EndRead \/ EndWrite \/ EndFailed
        \/ Seek
        \/ Truncate

Spec == Init /\ [][Next /\ UNCHANGED appends]_fileVars
==============================================================================
