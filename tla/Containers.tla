----------------------------- MODULE Containers -----------------------------
(* The small containers of vp::util that the rest of the program is built with,
   one section each.  Nothing stands for an entry never written or an invalid
   index, Beyond for what is read past the end of an array. *)
LOCAL INSTANCE Integers
LOCAL INSTANCE Sequences
LOCAL INSTANCE SequencesExt

CONSTANTS Nothing, Beyond

-----------------------------------------------------------------------------
(* vp::util::IntrusiveList: circular, with the list itself as one of the nodes.
   l.next and l.prev are functions on the nodes; several lists share them. *)
ListCreate(nodes) == [next |-> [n \in nodes |-> n], prev |-> [n \in nodes |-> n]]

ListIsLinked(l, n) == l.next[n] # n

\* Mutant: the way back is not closed.
ListLinkPrev_OneWay(l, list, n) ==
    [l EXCEPT !.prev[n] = l.prev[list], !.next[l.prev[list]] = n, !.prev[list] = n, !.next[n] = l.next[n]]

\* A node that is in a list brings the ring it is in along.
ListLinkPrev(l, list, n) ==
    LET a == [l EXCEPT !.prev[n] = l.prev[list]]
        b == [a EXCEPT !.next[l.prev[n]] = list]
        c == [b EXCEPT !.next[b.prev[list]] = n]
    IN  [c EXCEPT !.prev[list] = l.prev[n]]

ListLinkNext(l, list, n) ==
    LET a == [l EXCEPT !.next[n] = l.next[list]]
        b == [a EXCEPT !.prev[l.next[n]] = list]
        c == [b EXCEPT !.prev[b.next[list]] = n]
    IN  [c EXCEPT !.next[list] = l.next[n]]

ListPushBack(l, list, n) == ListLinkPrev(l, list, n)
ListPushFront(l, list, n) == ListLinkNext(l, list, n)

\* The list itself when there is no node.
ListFront(l, list) == l.next[list]
ListBack(l, list) == l.prev[list]
ListGetNext(l, n) == l.next[n]
ListIsEmpty(l, list) == ~ListIsLinked(l, list)

ListUnlink(l, n) ==
    LET a == [l EXCEPT !.next[l.prev[n]] = l.next[n]]
        b == [a EXCEPT !.prev[a.next[n]] = a.prev[n]]
    IN  [b EXCEPT !.next[n] = n, !.prev[n] = n]

ListRemove(l, n) == ListUnlink(l, n)

\* Mutant: the node stays behind.
ListPopFront_Peek(l, list) == [list |-> l, node |-> ListFront(l, list)]

ListPopFront(l, list) == [list |-> ListUnlink(l, ListFront(l, list)), node |-> ListFront(l, list)]
ListPopBack(l, list) == [list |-> ListUnlink(l, ListBack(l, list)), node |-> ListBack(l, list)]

\* The nodes an iteration over a list visits, forwards and backwards.
ListForward(l, list, max) ==
    LET walk[i \in 0..max] ==
          IF i = 0 THEN << >>
          ELSE LET w == walk[i - 1]
                   n == l.next[IF w = << >> THEN list ELSE w[Len(w)]]
               IN  IF Len(w) < i - 1 \/ n = list THEN w ELSE Append(w, n)
    IN  walk[max]

ListBackward(l, list, max) == ListForward([next |-> l.prev], list, max)

ListGetCount(l, list, max) == Len(ListForward(l, list, max))

ListClear(l, list, max) ==
    LET s == ListForward(l, list, max)
        step[i \in 0..Len(s)] == IF i = 0 THEN l ELSE ListUnlink(step[i - 1], s[i])
    IN  step[Len(s)]

-----------------------------------------------------------------------------
(* vp::util::RingBuffer and FixedRingBuffer: m_array as a function on 0..size-1,
   m_offset and m_count.  The entry Nothing was never written. *)
RingCreate(size) == [size |-> size, offset |-> 0, count |-> 0, array |-> [i \in 0..size - 1 |-> Nothing]]

RingSlot(r, i) == IF i >= r.size THEN i - r.size ELSE i

\* Mutant: the end of the array is reached one entry too late.
RingInsert_Late(r, x) ==
    LET i == r.offset + r.count
    IN  [r EXCEPT !.count = @ + 1, !.array = [j \in DOMAIN @ \cup {i} |->
            IF j = IF r.size < i THEN i - r.size ELSE i THEN x ELSE IF j \in DOMAIN @ THEN @[j] ELSE Nothing]]

\* The caller has room: m_max_count > m_count is asserted.
RingInsert(r, x) == [r EXCEPT !.count = @ + 1, !.array[RingSlot(r, r.offset + r.count)] = x]

\* What RemoveFront returns, and what it leaves.
RingFront(r) == IF r.count = 0 THEN Nothing ELSE r.array[RingSlot(r, r.offset)]

RingRemoveFront(r) ==
    IF r.count = 0 THEN r
    ELSE [r EXCEPT !.offset = IF @ + 1 < r.size THEN @ + 1 ELSE 0, !.count = @ - 1]

\* The entries of the array that Remove compares are the first m_count of the
\* array, whatever m_offset is, and so are those it moves; base only decides
\* about an index that is out of the array anyway.
RingRemoved(r, x) ==
    LET Compared == {i \in 0..r.count - 1 : i + r.offset <= r.size /\ r.array[i] = x}
        at   == CHOOSE i \in Compared : \A j \in Compared : i <= j
        wrap == r.size < r.count + r.offset /\ r.offset < at
        last == IF wrap THEN r.size - 1 ELSE r.count - 1
        moved == [i \in DOMAIN r.array |-> IF at <= i /\ i < last THEN r.array[i + 1] ELSE r.array[i]]
        lapped == [i \in DOMAIN r.array |->
                     IF i = r.size - 1 THEN moved[0]
                     ELSE IF i < r.offset + r.count - r.size - 1 THEN moved[i + 1] ELSE moved[i]]
    IN  IF Compared = {} THEN [aborted |-> TRUE, ring |-> r]
        ELSE [aborted |-> FALSE,
              ring |-> [r EXCEPT !.count = @ - 1, !.array = IF wrap THEN lapped ELSE moved]]

RingClear(r) == [r EXCEPT !.offset = 0, !.count = 0]

\* operator[]: an index of exactly the size is not wrapped.
RingAt(r, index) ==
    LET i == r.offset + index
        at == IF r.size < i THEN i - r.size ELSE i
    IN  IF at \in DOMAIN r.array THEN r.array[at] ELSE Beyond

\* An iteration counts from m_offset, which operator[] adds again, to the size.
RingVisited(r) == [i \in 1..r.size - r.offset |-> RingAt(r, r.offset + i - 1)]

-----------------------------------------------------------------------------
(* vp::util::AtomicRingBuffer, in the steps its threads take; m_offset and m_count
   only grow.  Three entries are kept free. *)
AtomicRingCreate(size) == RingCreate(size)

AtomicRingIndex(r, i) == i % r.size

\* Insert's test of the count it loaded.  Behind m_offset it is a huge number.
AtomicRingHasRoom(r, count) == r.offset <= count /\ count - r.offset < r.size - 3

AtomicRingReserve(r, count) ==
    IF r.count = count THEN [done |-> TRUE, last |-> count, ring |-> [r EXCEPT !.count = @ + 1]]
    ELSE [done |-> FALSE, last |-> r.count, ring |-> r]

AtomicRingPut(r, count, value) == [r EXCEPT !.array[AtomicRingIndex(r, count)] = value]

\* RemoveFront: what is loaded at the offset it loaded before.
AtomicRingPeek(r, offset) == r.array[AtomicRingIndex(r, offset)]

\* Mutant: the offset is written, not exchanged.
AtomicRingTake_Store(r, offset) == [done |-> TRUE, last |-> offset, ring |-> [r EXCEPT !.offset = offset + 1]]

AtomicRingTake(r, offset) ==
    IF r.offset = offset THEN [done |-> TRUE, last |-> offset, ring |-> [r EXCEPT !.offset = @ + 1]]
    ELSE [done |-> FALSE, last |-> r.offset, ring |-> r]

AtomicRingErase(r, offset) == AtomicRingPut(r, offset, Nothing)

-----------------------------------------------------------------------------
(* vp::util::PointerArray and FrameArray, in memory that is empty, and
   BufferedFrameArray, which goes round its arrays. *)
PointerArrayInitialize(max) == [count |-> 0, max |-> max, array |-> [i \in 0..max - 1 |-> Nothing]]

\* The caller has room: the assertion allows one more.
PushPointer(a, x) == [a EXCEPT !.array[a.count] = x, !.count = @ + 1]

PopPointer(a) == [a EXCEPT !.array[a.count - 1] = Nothing, !.count = @ - 1]

PointerArrayClear(a) == [a EXCEPT !.count = 0]

PointersVisited(a) == [i \in 1..a.count |-> a.array[i - 1]]

\* operator[] answers with the first entry for every index in use.
PointerAt(a, index) == a.array[IF index < a.count THEN 0 ELSE index]

FrameArrayInitialize(max) == PointerArrayInitialize(max)
PushValue(a, x) == PushPointer(a, x)
PopValue(a) == PopPointer(a)
ValuesVisited(a) == PointersVisited(a)
ValueAt(a, index) == PointerAt(a, index)

BufferedInitialize(frames, max) ==
    [current |-> 0, frames |-> frames, array |-> [f \in 0..frames - 1 |-> FrameArrayInitialize(max)]]

\* Mutant: the last array is not reached.
AdvanceFrameArray_Early(b) == [b EXCEPT !.current = IF @ < b.frames - 2 THEN @ + 1 ELSE 0]

AdvanceFrameArray(b) == [b EXCEPT !.current = IF @ < b.frames - 1 THEN @ + 1 ELSE 0]

GetLastFrameArray(b) == b.array[IF b.current = 0 THEN b.frames - 1 ELSE b.current - 1]

-----------------------------------------------------------------------------
(* vp::util::FixedIndexAllocator and FixedAtomicIndexAllocator: a chain of free
   indices in an array.  A read or write past the array, which the code does not
   stop, has the entry Beyond. *)
IndexCreate(count) == [next |-> 0, array |-> [i \in 0..count - 1 |-> IF i = count - 1 THEN Nothing ELSE i + 1]]

IndexEntry(a, i) == IF i \in DOMAIN a.array THEN a.array[i] ELSE Beyond

\* FixedIndexAllocator::Allocate and Free.
IndexAllocate(a) == [a EXCEPT !.next = IndexEntry(a, a.next)]

\* Mutant: the freed index does not become the head.
IndexFree_NoHead(a, i) == [a EXCEPT !.array[i] = a.next]

IndexFree(a, i) == [next |-> i, array |-> [a.array EXCEPT ![i] = a.next]]

\* Mutant: the head is written, not exchanged.
IndexExchangeHead_Store(a, handle, entry) == [done |-> TRUE, a |-> [a EXCEPT !.next = entry]]

\* The atomic one's exchange of the head, when it is still the handle that was
\* loaded, for the entry that was read behind it: Free does the same, although
\* it has linked its index in front of the handle.
IndexExchangeHead(a, handle, entry) ==
    IF a.next = handle THEN [done |-> TRUE, a |-> [a EXCEPT !.next = entry]] ELSE [done |-> FALSE, a |-> a]

IndexLinkFreed(a, i, handle) == [a EXCEPT !.array[i] = handle]

-----------------------------------------------------------------------------
(* vp::util::PointerArrayAllocator, and FixedObjectAllocator, which is its free
   list alone: objects chained through themselves, and the array of those in use
   in the order of their allocation. *)
\* The link of the last object is not written: here it is what zeroed memory has.
ObjectCreate(count) == [free |-> 1, link |-> [i \in 1..count |-> IF i = count THEN Nothing ELSE i + 1], used |-> << >>]

ObjectAllocate(p) ==
    IF p.free = Nothing THEN p
    ELSE [p EXCEPT !.free = p.link[p.free], !.used = Append(@, p.free)]

\* Mutant: an object is linked to the old head only.
ObjectFree_KeepsHead(p, x) == [p EXCEPT !.link[x] = p.free]

ObjectFree(p, x) == [p EXCEPT !.link[x] = p.free, !.free = x]

ObjectRemoveLast(p) ==
    IF p.used = << >> THEN p
    ELSE [ObjectFree(p, p.used[Len(p.used)]) EXCEPT !.used = SubSeq(@, 1, Len(@) - 1)]

ObjectClear(p) ==
    LET step[i \in 0..Len(p.used)] == IF i = 0 THEN p ELSE ObjectFree(step[i - 1], p.used[i])
    IN  [step[Len(p.used)] EXCEPT !.used = << >>]

-----------------------------------------------------------------------------
(* vp::util::FixedKeyIndexMap over FixedHashMap: open addressing; hash 0 marks a
   free entry.  Nothing is ever removed but by Clear. *)
MapCreate(size) == [size |-> size, count |-> 0,
                 array |-> [i \in 0..size - 1 |-> [hash |-> 0, index |-> 0]]]

\* Mutant: the search for a place does not go round.
MapProbe_NoWrap(m, hash) == [k \in 0..m.size - 1 |-> IF (hash % m.size) + k < m.size THEN (hash % m.size) + k ELSE m.size - 1]

\* The entries in the order they are tried.
MapProbe(m, hash) == [k \in 0..m.size - 1 |-> ((hash % m.size) + k) % m.size]

MapFirstWith(m, hash, wanted) ==
    LET p == MapProbe(m, hash)
        K == {k \in DOMAIN p : m.array[p[k]].hash = wanted}
    IN  IF K = {} THEN -1 ELSE p[CHOOSE k \in K : \A j \in K : k <= j]

\* The assertions m_count < Size and hash != 0 are the caller's business.
MapAddEntry(m, hash, index) ==
    [m EXCEPT !.count = @ + 1, !.array[MapFirstWith(m, hash, 0)] = [hash |-> hash, index |-> index]]

MapTryGetIndexByKey(m, hash) ==
    LET i == MapFirstWith(m, hash, hash) IN IF i = -1 THEN -1 ELSE m.array[i].index

MapClear(m) == [m EXCEPT !.count = 0, !.array = [i \in DOMAIN m.array |-> [m.array[i] EXCEPT !.hash = 0]]]

-----------------------------------------------------------------------------
(* vp::util::FixedString, a buffer and a length, and the functions of util_pathutil
   that take a path apart.  chars are all the characters of the buffer, a C string
   is a sequence without its terminator. *)
NUL == "end"

StringCreate(size) == [chars |-> [i \in 1..size |-> NUL], length |-> 0]

StringAssureTermination(s) == [s EXCEPT !.chars[Len(s.chars)] = NUL]

\* What the C functions see of the buffer.
StringGetString(s) ==
    LET ends == {i \in DOMAIN s.chars : s.chars[i] = NUL}
    IN  SubSeq(s.chars, 1, (CHOOSE i \in ends : \A j \in ends : i <= j) - 1)

\* memcpy to the offset at; what lies behind stays.
StringOver(s, string, at) ==
    [s EXCEPT !.chars = [i \in DOMAIN @ |-> IF i - at \in DOMAIN string THEN string[i - at] ELSE @[i]]]

\* The constructors and the assignments: the terminator is written one character
\* too far.
StringAssign(s, string) ==
    LET n == Len(string)
        copied == StringOver(s, string, 0)
        ended == IF n + 2 \in DOMAIN s.chars THEN [copied EXCEPT !.chars[n + 2] = NUL] ELSE copied
    IN  StringAssureTermination([ended EXCEPT !.length = n])

StringClear(s) == [s EXCEPT !.length = 0, !.chars[1] = NUL]

StringFormat(s, string) ==
    StringAssureTermination([StringOver(s, string \o <<NUL>>, 0) EXCEPT !.length = Len(string)])

StringAppendFormat(s, string) ==
    StringAssureTermination([StringOver(s, string \o <<NUL>>, s.length) EXCEPT !.length = @ + Len(string)])

StringAppend(s, string) ==
    LET n == IF Len(string) < Len(s.chars) - s.length - 1 THEN Len(string) ELSE Len(s.chars) - s.length - 1
    IN  StringAssureTermination([StringOver(s, SubSeq(string, 1, n), s.length) EXCEPT !.length = @ + n])

StringTruncateStart_NoMove(s, n) ==
    StringAssureTermination([s EXCEPT !.length = IF @ <= n THEN 0 ELSE @ - n])

StringTruncateStart(s, n) ==
    IF s.length <= n THEN StringAssureTermination([s EXCEPT !.length = 0])
    ELSE StringAssureTermination([StringOver(s, SubSeq(s.chars, n + 1, s.length), 0) EXCEPT !.length = @ - n])

StringTruncateEnd(s, n) == StringAssureTermination([s EXCEPT !.length = IF @ <= n THEN 0 ELSE @ - n])

StringSameChars(s, t) == SubSeq(s.chars, 1, s.length) = SubSeq(t.chars, 1, s.length)
StringEqual(s, t) == s.length = t.length /\ StringSameChars(s, t)

\* operator!=: of two strings of one length, the equal ones differ.
StringNotEqual(s, t) == s.length # t.length \/ StringSameChars(s, t)

-----------------------------------------------------------------------------
(* Paths.  The searches go from the end of the path to the offset 1: 0 says that
   there is no such character. *)
FindLast(path, delimiter) ==
    LET found == {i \in 1..Len(path) - 1 : path[i + 1] = delimiter}
    IN  IF found = {} THEN 0 ELSE CHOOSE i \in found : \A j \in found : j <= i

FindDriveDelimiter(path) == FindLast(path, ":")

FindDirectoryDelimiter_ForwardOnly(path) == FindLast(path, "/")

FindDirectoryDelimiter(path) ==
    LET back == FindLast(path, "\\")
        forward == FindLast(path, "/")
    IN  IF forward < back THEN back ELSE forward

FindExtensionDelimiter(path) == FindLast(path, ".")

\* The size n from the offset first, unsigned: a negative one stands for what it
\* wraps to.  The buffer takes what fits, the length all of it.
CopyPart(out, path, first, n) ==
    LET room == Len(out.chars) - 1
        taken == IF 0 <= n /\ n < Len(out.chars) THEN n ELSE room
    IN  StringAssureTermination([StringOver(out, [i \in 1..taken |-> IF first + i \in DOMAIN path THEN path[first + i] ELSE NUL], 0)
                             EXCEPT !.length = n])

GetDrive(out, path) ==
    IF path = <<>> THEN out ELSE CopyPart(out, path, 0, FindDriveDelimiter(path))

\* The delimiter and one more character are left out.
GetPathWithoutDrive(out, path) ==
    LET drive == FindDriveDelimiter(path)
        first == IF drive # 0 THEN drive + 2 ELSE 0
    IN  IF path = <<>> THEN out ELSE CopyPart(out, path, first, Len(path) - first)

GetPathWithoutExtension(out, path) ==
    IF path = <<>> THEN out ELSE CopyPart(out, path, 0, FindExtensionDelimiter(path))

GetDirectory(out, path) ==
    IF path = <<>> THEN out ELSE CopyPart(out, path, 0, FindDirectoryDelimiter(path) + 1)

\* The name's offset is subtracted as well: the size is minus the drive's.
GetDirectoryWithoutDrive(out, path) ==
    LET drive == FindDriveDelimiter(path)
        name == FindDirectoryDelimiter(path) + 1
    IN  IF path = <<>> THEN out ELSE CopyPart(out, path, drive, name - drive - name)

GetFileNameWithExtension(out, path) ==
    LET name == FindDirectoryDelimiter(path) + 1
    IN  IF path = <<>> THEN out ELSE CopyPart(out, path, name, Len(path) - name)

GetFileNameWithoutExtension(out, path) ==
    LET name == FindDirectoryDelimiter(path) + 1
    IN  IF path = <<>> THEN out ELSE CopyPart(out, path, name, FindExtensionDelimiter(path) - name)

\* With its dot; the only part whose length is cut to what fits.
GetExtension(out, path) ==
    LET first == FindExtensionDelimiter(path)
        n == IF Len(path) - first < Len(out.chars) THEN Len(path) - first ELSE Len(out.chars) - 1
    IN  IF path = <<>> THEN out ELSE CopyPart(out, path, first, n)

\* All delimiters but one at the offset 0.
ChangeDirectoryDelimiter(s, delimiter) ==
    LET last == FindDirectoryDelimiter(SubSeq(s.chars, 1, s.length)) + 1
    IN  IF s.length = 0 THEN s
        ELSE [s EXCEPT !.chars = [i \in DOMAIN @ |->
                IF i - 1 \in 1..last /\ @[i] \in {"/", "\\"} THEN delimiter ELSE @[i]]]
=============================================================================
