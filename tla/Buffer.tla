-------------------------------- MODULE Buffer --------------------------------
(***************************************************************************)
(* Buffer (net/Buffer.h, net/Buffer.cc): a vector of bytes with a reader   *)
(* and a writer index that slide to the right, are moved back when there   *)
(* is room in front, and make the vector grow when there is not.           *)
(*                                                                         *)
(* What is in a byte does not matter, only where it ends up: the n-th byte *)
(* ever put into the buffer is the number n.  The bytes the reader sees    *)
(* then have to be consecutive numbers.                                    *)
(***************************************************************************)
EXTENDS Integers

CONSTANTS
  kCheapPrepend,  \* bytes kept free in front
  InitialSize,    \* initialSize, kInitialSize by default
  ExtraSize,      \* sizeof(extrabuf) in readFd
  MaxBytes        \* bound on the bytes that are ever put into the buffer

ASSUME BufferAssumption ==
  /\ kCheapPrepend \in Nat
  /\ InitialSize \in Nat
  /\ ExtraSize \in Nat
  /\ MaxBytes \in Nat

VARIABLES
  buffer,  \* the Buffer: its vector, that one's size, and the two indices
  given,   \* history: how many bytes were put in
  taken    \* history: how many were taken out

bufferVars == <<buffer, given, taken>>

BufferInit ==
  /\ buffer = [cells  |-> [i \in 0..((kCheapPrepend + InitialSize) - 1) |-> 0],
               size   |-> kCheapPrepend + InitialSize,
               reader |-> kCheapPrepend,
               writer |-> kCheapPrepend]
  /\ given = 0
  /\ taken = 0

------------------------------------------------------------------------------
readableBytes(b) == b.writer - b.reader
writableBytes(b) == b.size - b.writer
prependableBytes(b) == b.reader

\* buffer_.resize(n); new bytes are zero.
Resized(b, n) ==
  [cells  |-> [i \in 0..(n - 1) |-> IF i < b.size THEN b.cells[i] ELSE 0],
   size   |-> n,
   reader |-> b.reader,
   writer |-> b.writer]

\* std::copy of the readable bytes to the front.
MovedToFront(b) ==
  [cells  |-> [i \in 0..(b.size - 1) |->
                 IF i \in kCheapPrepend..((kCheapPrepend + readableBytes(b)) - 1)
                 THEN b.cells[b.reader + (i - kCheapPrepend)]
                 ELSE b.cells[i]],
   size   |-> b.size,
   reader |-> kCheapPrepend,
   writer |-> kCheapPrepend + readableBytes(b)]

\* Mutants: the bytes kept free in front are counted as room; the vector grows
\* without a look at the room in front.
makeSpace_CountsPrepend(b, len) ==
  IF writableBytes(b) + prependableBytes(b) < len
  THEN Resized(b, b.writer + len)
  ELSE MovedToFront(b)
makeSpace_NeverMoves(b, len) == Resized(b, b.writer + len)

makeSpace(b, len) ==
  IF writableBytes(b) + prependableBytes(b) < len + kCheapPrepend
  THEN Resized(b, b.writer + len)
  ELSE MovedToFront(b)

ensureWritableBytes(b, len) ==
  IF writableBytes(b) < len THEN makeSpace(b, len) ELSE b

\* len bytes, numbered from first on, are copied to the writer's position.
Written(b, first, len) ==
  [cells  |-> [i \in 0..(b.size - 1) |->
                 IF i \in b.writer..((b.writer + len) - 1)
                 THEN first + (i - b.writer)
                 ELSE b.cells[i]],
   size   |-> b.size,
   reader |-> b.reader,
   writer |-> b.writer + len]

Appended(b, first, len) == Written(ensureWritableBytes(b, len), first, len)

\* retrieve(): all that is left if it is asked for more than there is, as
\* retrieveUntil does when findCRLF found nothing.
Retrieved(b, len) ==
  IF len < readableBytes(b)
  THEN [b EXCEPT !.reader = b.reader + len]
  ELSE [b EXCEPT !.reader = kCheapPrepend, !.writer = kCheapPrepend]

Least(m, n) == IF m <= n THEN m ELSE n

\* What one readv() may bring: extrabuf is only offered while the vector has
\* less room than that.
MaxRead(b) ==
  writableBytes(b) + (IF writableBytes(b) < ExtraSize THEN ExtraSize ELSE 0)

\* readFd(): n bytes from first on came in, the ones that do not fit the vector
\* in extrabuf.
ReadIn(b, first, n) ==
  IF n <= writableBytes(b)
  THEN Written(b, first, n)
  ELSE Appended(Written(b, first, writableBytes(b)),
                first + writableBytes(b), n - writableBytes(b))

------------------------------------------------------------------------------
\* append(data, len)
AppendBytes(len) ==
  /\ given + len <= MaxBytes
  /\ buffer' = Appended(buffer, given, len)
  /\ given' = given + len
  /\ UNCHANGED taken

\* readFd(fd, &errno) when readv() returned n.
ReadFd(n) ==
  /\ n <= MaxRead(buffer)
  /\ given + n <= MaxBytes
  /\ buffer' = ReadIn(buffer, given, n)
  /\ given' = given + n
  /\ UNCHANGED taken

\* retrieve(len), and retrieveAsString(len), which copies the same bytes.
Retrieve(len) ==
  /\ buffer' = Retrieved(buffer, len)
  /\ taken' = taken + Least(len, readableBytes(buffer))
  /\ UNCHANGED given

BufferNext ==
  \E n \in 0..MaxBytes :
    \/ AppendBytes(n)
    \/ ReadFd(n)
    \/ Retrieve(n)

BufferSpec == BufferInit /\ [][BufferNext]_bufferVars

------------------------------------------------------------------------------
(* Properties *)

IsBuffer(b) ==
  /\ b \in [cells : [0..(b.size - 1) -> Nat], size : Nat, reader : Nat, writer : Nat]
  /\ b.reader \in kCheapPrepend..b.writer
  /\ b.writer \in kCheapPrepend..b.size

\* b holds the bytes number t up to number g - 1, in order.
HoldsBytes(b, t, g) ==
  /\ readableBytes(b) = g - t
  /\ \A i \in b.reader..(b.writer - 1) : b.cells[i] = t + (i - b.reader)

\* The indices stay in kCheapPrepend <= readerIndex_ <= writerIndex_ <= size(),
\* and what can be read is what was put in and not yet taken out, byte by byte
\* in order, through growing, moving and the detour over extrabuf.
BufferInv ==
  /\ given \in Nat
  /\ taken \in Nat
  /\ IsBuffer(buffer)
  /\ HoldsBytes(buffer, taken, given)

\* makeSpace enlarges the vector only if the bytes to be kept would not fit it
\* once moved to the front; otherwise space in front is used again.
GrowsOnlyWhenFull ==
  [][buffer'.size # buffer.size =>
       buffer'.size > buffer.size /\ readableBytes(buffer') > buffer.size - kCheapPrepend]_bufferVars
==============================================================================
