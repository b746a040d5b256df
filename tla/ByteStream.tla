----------------------------- MODULE ByteStream -----------------------------
(***************************************************************************)
(* What a file handle promises: bytes are appended while the file is open  *)
(* for writing, and while it is open for reading each step of a read gives *)
(* the bytes that follow the position.  Byte number i of the file is i.    *)
(***************************************************************************)
EXTENDS Naturals, Sequences

CONSTANT MaxSize    \* bound: bytes in the file

VARIABLES
    mode,           \* how the file is open
    size,           \* bytes written
    pos,            \* where the next read starts
    out             \* what the last step of a read delivered

svars == <<mode, size, pos, out>>

Bytes(p, n) == [i \in 1 .. n |-> p + i]

SInit == mode = "none" /\ size = 0 /\ pos = 0 /\ out = <<>>

Create == mode = "none" /\ mode' = "write" /\ UNCHANGED <<size, pos, out>>

Accept(n) == mode = "write" /\ size' = size + n /\ UNCHANGED <<mode, pos, out>>

Commit == mode = "write" /\ mode' = "shut" /\ UNCHANGED <<size, pos, out>>

Open == mode = "shut" /\ mode' = "read" /\ pos' = 0 /\ out' = <<>> /\ UNCHANGED size

Deliver(n) ==
    /\ mode = "read" /\ pos + n <= size
    /\ pos' = pos + n /\ out' = Bytes(pos, n)
    /\ UNCHANGED <<mode, size>>

Move(p) == mode = "read" /\ pos' = p /\ out' = <<>> /\ UNCHANGED <<mode, size>>

Shut == mode = "read" /\ mode' = "shut" /\ pos' = 0 /\ out' = <<>> /\ UNCHANGED size

SNext ==
    \/ Create \/ Commit \/ Open \/ Shut
    \/ \E n \in 1 .. MaxSize : Accept(n)
    \/ \E n \in 0 .. size : Deliver(n)
    \/ \E p \in 0 .. size : Move(p)

SSpec == SInit /\ [][SNext]_svars
=============================================================================
