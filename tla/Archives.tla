------------------------------ MODULE Archives ------------------------------
(* vp::resbui::SarcBuilder and ResourceSizeTableBuilder, which write archives of
   files and tables of sizes, and vp::res::SarcExtractor and
   ResourceSizeTableExtractor, which read them.  Paths are numbers; Hash[p] is
   the hash of p, Length[p] its length; sizes and offsets are bytes. *)
EXTENDS Integers, Sequences, SequencesExt, FiniteSets, TLC

CONSTANTS Hash, Length

cInvalid == -1      \* cInvalidEntryIndex, cInvalidSize

AlignUp(n, a) == ((n + a - 1) \div a) * a

-----------------------------------------------------------------------------
(* The search by hash that both formats share: entry_id halves [low, high] of
   the sorted hashes h[0], h[1], ... *)
RECURSIVE HashSearch(_, _, _, _, _)
HashSearch(h, hash, entry_id, low, high) ==
    LET below == hash < h[entry_id]
        new_low == IF below THEN low ELSE entry_id
        new_high == IF below THEN entry_id ELSE high
    IN  IF hash = h[entry_id] THEN entry_id
        ELSE IF entry_id = (IF below THEN high ELSE low) THEN cInvalid
        ELSE HashSearch(h, hash, (new_low + new_high) \div 2, new_low, new_high)

FindHash(h, hash) ==
    LET n == Cardinality(DOMAIN h)
    IN  IF n = 0 THEN cInvalid ELSE HashSearch(h, hash, n \div 2, 0, n)

-----------------------------------------------------------------------------
(* The archive.  A node is [path, size, alignment]; the builder a sequence of them. *)

\* AddFile: in front of the first node whose hash is not smaller.  Only the
\* nodes passed on the way are compared with the path.
Place(list, hash) ==
    LET after == {i \in 1..Len(list) : hash <= Hash[list[i].path]}
    IN  IF after = {} THEN Len(list) + 1 ELSE CHOOSE i \in after : \A j \in after : i <= j

IsDuplicate(list, node) ==
    \E i \in 1..Len(list) : i <= Place(list, Hash[node.path]) /\ list[i].path = node.path

AddFile(list, node) ==
    IF IsDuplicate(list, node) THEN list ELSE InsertAt(list, Place(list, Hash[node.path]), node)

\* CalculateMemoryInfo, its offset of the file region: after the header, the
\* entries and the paths, aligned for the first file.
PathsSize(list) == FoldLeft(LAMBDA n, node : AlignUp(n + Length[node.path] + 1, 4), 8, list)

FileRegionOffset(list) ==
    AlignUp(20 + 12 + 16 * Len(list) + PathsSize(list), list[1].alignment)

\* Serialize, to a buffer at an aligned address: one node's entry, path and file.
WriteFile(a, node, base) ==
    LET hash == Hash[node.path]
        n == Len(a.entries)
        again == n > 0 /\ a.entries[n].hash = hash
        start == AlignUp(base + a.end, node.alignment) - base
    IN  [entries |-> Append(a.entries,
           [hash |-> hash, name_offset |-> a.names_end,
            collision |-> IF again THEN a.entries[n].collision + 1 ELSE 1,
            start |-> start, end |-> start + node.size]),
         names     |-> Append(a.names, [offset |-> a.names_end, path |-> node.path]),
         names_end |-> AlignUp(a.names_end + Length[node.path] + 1, 4),
         end       |-> start + node.size]

(* The headers.  A field is a number and whether its bytes lie in the other
   order than the host's; an archive has a.sarc, a.sfat and a.sfnt, and its
   entries and names as they are read in the order of a.sarc.endianess. *)
SwapEndian(field) == [field EXCEPT !.reverse = ~@]
Native(n) == [value |-> n, reverse |-> FALSE]

IsReverseEndian(sarc) == sarc.endianess.reverse
Read(field, is_reverse_endian) == IF is_reverse_endian THEN SwapEndian(field) ELSE field

SfatIsValid(sfat, rev) ==
    /\ Read(sfat.magic, rev) = Native("SFAT") /\ Read(sfat.header_size, rev) = Native(12)
    /\ ~Read(sfat.file_count, rev).reverse /\ Read(sfat.file_count, rev).value < 2^14

SfntIsValid(sfnt, rev) ==
    Read(sfnt.magic, rev) = Native("SFNT") /\ Read(sfnt.header_size, rev) = Native(8)

SarcIsValid(sarc) ==
    LET rev == IsReverseEndian(sarc)
    IN  /\ Read(sarc.magic, rev) = Native("SARC") /\ Read(sarc.header_size, rev) = Native(20)
        /\ Read(sarc.version, rev) = Native(256)

\* Of an archive in the other order: the table of names gets the header of the
\* entries, swapped back.  One in the host's order would take its new number of
\* files, with the bytes reversed, for the number of entries to swap.
SarcSwapEndian(a) ==
    LET Swap(header) == [f \in DOMAIN header |-> SwapEndian(header[f])]
        sfat == Swap(a.sfat)
    IN  [a EXCEPT !.sarc = Swap(@), !.sfat = sfat,
                  !.sfnt = [magic |-> SwapEndian(sfat.magic), header_size |-> SwapEndian(sfat.header_size)]]

\* SarcExtractor::Initialize: whether it takes the archive, and its file region.
SarcInitialize(a) ==
    LET rev == IsReverseEndian(a.sarc)
    IN  IF SarcIsValid(a.sarc) /\ SfatIsValid(a.sfat, rev) /\ SfntIsValid(a.sfnt, rev)
        THEN {[archive |-> a, file_region |-> Read(a.sarc.file_array_offset, rev).value]} ELSE {}

GetFileCount(a) == Read(a.sfat.file_count, IsReverseEndian(a.sarc)).value

\* What Serialize writes in front of the entries.
Headers(list) ==
    [sarc |-> [magic |-> Native("SARC"), header_size |-> Native(20), endianess |-> Native(65279),
               version |-> Native(256), file_array_offset |-> Native(FileRegionOffset(list))],
     sfat |-> [magic |-> Native("SFAT"), header_size |-> Native(12), file_count |-> Native(Len(list))],
     sfnt |-> [magic |-> Native("SFNT"), header_size |-> Native(8)]]

Serialize(list) ==
    LET a == FoldLeft(LAMBDA b, node : WriteFile(b, node, FileRegionOffset(list)),
                      [entries |-> <<>>, names |-> <<>>, names_end |-> 0, end |-> 0], list)
        headers == Headers(list)
    IN  [part \in DOMAIN a \cup DOMAIN headers |-> IF part \in DOMAIN a THEN a[part] ELSE headers[part]]

\* SarcExtractor of an archive whose headers are in order.
TryGetPathByEntryIndex(a, index) ==
    {name.path : name \in {name \in ToSet(a.names) :
        index < Len(a.entries) /\ name.offset = a.entries[index + 1].name_offset}}

\* The search among colliding paths compares with the rest of the path, which
\* was used up by the hash: none is equal.  It ends at another hash or, past the
\* last entry, with the number of entries.
CollidingIndex(a, index) ==
    LET first == index - a.entries[index + 1].collision + 1
    IN  IF \A i \in first + 1..Len(a.entries) : a.entries[i].hash = a.entries[index + 1].hash
          THEN Len(a.entries) ELSE cInvalid

TryGetEntryIndexByPath(a, path) ==
    LET index == FindHash([i \in 0..Len(a.entries) - 1 |-> a.entries[i + 1].hash], Hash[path])
    IN  IF index = cInvalid \/ a.entries[index + 1].collision = 1 THEN index
        ELSE CollidingIndex(a, index)

\* An index equal to the number of entries passes the test: what is read there
\* is the header of the paths.
TryGetFileByIndex(a, index) ==
    IF index = cInvalid \/ Len(a.entries) < index THEN {}
    ELSE IF index = Len(a.entries) THEN {[start |-> cInvalid, size |-> cInvalid]}
    ELSE LET e == a.entries[index + 1] IN {[start |-> e.start, size |-> e.end - e.start]}

TryGetFileByPath(a, path) == TryGetFileByIndex(a, TryGetEntryIndexByPath(a, path))

-----------------------------------------------------------------------------
(* The table of sizes.  b.crc is the tree of the hashes: [hash, size, path]
   with 0 for an entry that was made without its path; b.collision that of the paths. *)
EmptyTable == [crc |-> {}, collision |-> {}]

FindCrc(b, hash) == {e \in b.crc : e.hash = hash}
FindCollision(b, path) == {e \in b.collision : e.path = path}

\* AddEntry: of an entry whose hash is taken, only one that the collision tree
\* has already is added.
AddEntry(b, new) ==
    LET old == FindCrc(b, new.hash)
    IN  IF old = {} THEN [b EXCEPT !.crc = @ \cup {new}]
        ELSE IF new.path = 0 \/ FindCollision(b, new.path) = {} THEN b
        ELSE [crc |-> b.crc \ old, collision |-> b.collision \cup old \cup {new}]

SearchEntry(b, path) ==
    IF FindCrc(b, Hash[path]) # {} THEN FindCrc(b, Hash[path]) ELSE FindCollision(b, path)

\* RemoveEntry: the last other entry with the hash is put back with the hashes.
RemoveEntry(b, path) ==
    LET gone == SearchEntry(b, path)
        rest == b.collision \ gone
        alike == {e \in rest : e.hash = Hash[path]}
    IN  IF gone \cap b.collision # {} /\ Cardinality(alike) = 1
          THEN [crc |-> (b.crc \ gone) \cup alike, collision |-> rest \ alike]
          ELSE [crc |-> b.crc \ gone, collision |-> rest]

UpdateSize(b, path, size) ==
    LET old == SearchEntry(b, path)
        new == {[e EXCEPT !.size = size] : e \in old}
    IN  [crc       |-> (b.crc \ old) \cup {e \in new : old \subseteq b.crc},
         collision |-> (b.collision \ old) \cup {e \in new : old \subseteq b.collision}]

\* Serialize: both trees in their order.
SerializeTable(b) ==
    [crc       |-> SetToSortSeq(b.crc, LAMBDA d, e : d.hash < e.hash),
     collision |-> SetToSortSeq(b.collision, LAMBDA d, e : d.path < e.path)]

(* ResourceSizeTableExtractor.  A file is [header, crc, collision, max_path]: the
   table of today, the one before, which does not say how long its paths are,
   or a bare row of hashes. *)
cDefaultMaxLength == 128
NoExtractor == [crc |-> <<>>, collision |-> <<>>, max_path |-> 0]

\* Initialize.  For a bare row the collisions of the table before are kept.
ExtractorInitialize(x, file, max_path_length) ==
    LET given == IF max_path_length # cInvalid THEN max_path_length ELSE cDefaultMaxLength
    IN  [crc |-> file.crc,
         collision |-> IF file.header = "none" THEN x.collision ELSE file.collision,
         max_path |-> IF file.header = "new" THEN file.max_path ELSE given]

ExtractorFinalize(x) == NoExtractor

TryGetResourceSizeByCrc32(t, hash) ==
    LET index == FindHash([i \in 0..Len(t.crc) - 1 |-> t.crc[i + 1].hash], hash)
    IN  IF index = cInvalid THEN cInvalid ELSE t.crc[index + 1].size

RECURSIVE PathSearch(_, _, _, _)
PathSearch(collision, path, i, size) ==
    LET index == (i + size) \div 2
    IN  IF i >= size THEN cInvalid
        ELSE IF path = collision[index + 1].path THEN collision[index + 1].size
        ELSE IF collision[index + 1].path < path THEN PathSearch(collision, path, index + 1, size)
        ELSE PathSearch(collision, path, i, index)

TryGetResourceSize(t, path) ==
    LET size == TryGetResourceSizeByCrc32(t, Hash[path])
    IN  IF size # cInvalid THEN size ELSE PathSearch(t.collision, path, 0, Len(t.collision))

(* ResourceSizeTableManager: its own table and those registered behind it, each
   [file, table], file being where the table lies. *)
TablesGetResourceSize(tables, path) ==
    LET having == SelectSeq(tables, LAMBDA x : TryGetResourceSize(x.table, path) # cInvalid)
    IN  IF having = <<>> THEN cInvalid ELSE TryGetResourceSize(having[1].table, path)

RegisterResourceSizeTable(tables, file, t) ==
    Append(tables, [file |-> file, table |-> ExtractorInitialize(NoExtractor, t, cInvalid)])

\* The first registered one that is another one goes.
UnregisterResourceSizeTable(tables, file) ==
    LET others == {i \in 2..Len(tables) : tables[i].file # file}
    IN  IF others = {} THEN tables ELSE RemoveAt(tables, CHOOSE i \in others : \A j \in others : i <= j)

ClearTables(tables) == SubSeq(tables, 1, 1)
-----------------------------------------------------------------------------
(* AsyncResourceManager's default archive, for the threads without one of their
   own.  d is [reference_count, is_loaded, at]: at[t] is where thread t is in its
   load, "idle", "acquire" before the increment, "use", or "finalize" before the
   binder is finalized. *)
NoDefaultArchive(threads) == [reference_count |-> 0, is_loaded |-> FALSE, at |-> [t \in threads |-> "idle"]]

SetDefaultArchive(d) ==
    IF d.is_loaded THEN d ELSE [d EXCEPT !.is_loaded = TRUE, !.reference_count = @ + 1]

\* AcquireDefaultArchive; a refusal after the increment keeps its reference.
BeginAcquire(d, t) == IF d.reference_count = 0 THEN d ELSE [d EXCEPT !.at[t] = "acquire"]
EndAcquire(d, t) ==
    [d EXCEPT !.reference_count = @ + 1, !.at[t] = IF d.is_loaded THEN "use" ELSE "idle"]

\* ReleaseDefaultArchive.  The decrement answers the new value: the one of
\* SetDefaultArchive is left when the binder is finalized.
OutOfReference_Early(count) == count <= 2
OutOfReference(count) == count = 1

ReleaseDefaultArchive(d, t) ==
    [d EXCEPT !.reference_count = @ - 1,
              !.at[t] = IF OutOfReference(d.reference_count - 1) THEN "finalize" ELSE "idle"]
FinalizeDefaultArchive(d, t) == [d EXCEPT !.is_loaded = FALSE, !.at[t] = "idle"]

-----------------------------------------------------------------------------
(* vp::res::ResNintendoWareDictionary: a search tree on the bits of the keys,
   counted from their last character.  d[0] is the root node, whose key is empty;
   d[i] is the node of entry i - 1: [ref_bit, child, key], child[0] the left one. *)
cNPos == -1

\* A bit past the first character, or before the last one, is 0.
KeyBit(key, b) ==
    IF b < 0 \/ b \div 8 >= Len(key) THEN 0 ELSE (key[Len(key) - b \div 8] \div 2^(b % 8)) % 2

\* The search for a key goes down as long as the bits tested grow, here only to
\* those below limit: the last node whose bit was tested and the one behind it.
RECURSIVE Descend(_, _, _, _)
Descend(d, key, limit, way) ==
    LET bit == d[way.at].ref_bit
    IN  IF d[way.parent].ref_bit < bit /\ bit < limit
          THEN Descend(d, key, limit, [parent |-> way.at, at |-> d[way.at].child[KeyBit(key, bit)]])
          ELSE way

SearchNode(d, key, limit) == Descend(d, key, limit, [parent |-> 0, at |-> d[0].child[0]])

AllBits == 8 * 1000

\* The first bit in which two keys differ.
FindRefBit(key, other) ==
    LET longer == IF Len(key) < Len(other) THEN Len(other) ELSE Len(key)
        differing == {b \in 0..8 * longer - 1 : KeyBit(key, b) # KeyBit(other, b)}
    IN  IF differing = {} THEN cNPos ELSE CHOOSE b \in differing : \A c \in differing : b <= c

\* One turn of Build's loop, for the node i; side is where the node it is put
\* above of goes.
LinkNode(d, i, new_ref, side) ==
    LET key == d[i].key
        way == SearchNode(d, key, new_ref)
        e == [d EXCEPT ![i].ref_bit = new_ref, ![way.parent].child[KeyBit(key, d[way.parent].ref_bit)] = i]
    IN  [e EXCEPT ![i].child[side] = way.at]

BuildNode(b, i) ==
    LET key == b.nodes[i].key
        new_ref == FindRefBit(key, b.nodes[SearchNode(b.nodes, key, AllBits).at].key)
        child == SearchNode(b.nodes, key, new_ref).at
    IN  IF ~b.done THEN b
        ELSE IF new_ref = cNPos THEN [b EXCEPT !.done = FALSE]
        ELSE [b EXCEPT !.nodes = LinkNode(@, i, new_ref, KeyBit(key, b.nodes[child].ref_bit))]

EmptyNodes(keys) ==
    [i \in 0..Len(keys) |-> [ref_bit |-> cNPos, child |-> [side \in 0..1 |-> i],
                             key |-> IF i = 0 THEN << >> ELSE keys[i]]]

Build(keys) ==
    FoldLeft(BuildNode, [done |-> TRUE, nodes |-> EmptyNodes(keys)], [i \in 1..Len(keys) |-> i])

TryGetEntryIndexByKey(d, key) ==
    LET at == SearchNode(d, key, AllBits).at
    IN  IF d[at].key = key /\ at # 0 THEN at - 1 ELSE cInvalid

GetKeyByEntryIndex(d, entry_id) == d[entry_id + 1].key

-----------------------------------------------------------------------------
(* vp::resbui::NintendoWareRelocationTableStream, which writes a relocation table,
   and vp::res::ResNintendoWareRelocationTable, which applies it.  Words are the
   unit; t is the table in memory that was zero: its sections and its entries,
   with those placed from max_sections on. *)
NoEntry == [region_offset |-> 0, array_count |-> 0, relocation_count |-> 0, array_stride |-> 0]
NoSection == [base_pointer |-> 0, region_offset |-> 0, base_entry_index |-> 0, entry_count |-> 0]

StreamInitialize(max_sections, max_entries) ==
    [section |-> [i \in 0..max_sections - 1 |-> NoSection], entry |-> [i \in 0..max_entries - 1 |-> NoEntry],
     section_count |-> 0, entry_count |-> 0]

\* Only the next section closes a section: the last one has no entries.
StartSection(t, region_offset) ==
    LET i == t.section_count
        closed == IF i = 0 THEN t
                  ELSE [t EXCEPT !.section[i - 1].entry_count = t.entry_count - t.section[i - 1].base_entry_index]
    IN  IF i \notin DOMAIN t.section THEN t
        ELSE [closed EXCEPT !.section_count = i + 1, !.section[i].region_offset = region_offset,
                            !.section[i].base_entry_index = t.entry_count]

AddRelocation(t, entry) ==
    IF t.entry_count \notin DOMAIN t.entry THEN t
    ELSE [t EXCEPT !.entry[t.entry_count] = entry, !.entry_count = @ + 1]

\* The words an entry names: array_count times relocation_count, array_stride apart.
RelocatedWords(e) ==
    {e.region_offset + k * (e.relocation_count + e.array_stride) + j :
        k \in 0..e.array_count - 1, j \in 0..e.relocation_count - 1}

\* The entries that the sections name, each with the base of its section.  All
\* sections are started: the reader looks for the entries behind section_count
\* sections, the stream placed them behind max_sections.
TableEntries(t, base_file) ==
    LET Of(s) == [k \in 1..s.entry_count |->
                    [entry |-> t.entry[s.base_entry_index + k - 1],
                     base  |-> IF s.base_pointer = 0 THEN base_file ELSE s.base_pointer - s.region_offset]]
    IN  FlattenSeq([i \in 1..t.section_count |-> Of(t.section[i - 1])])

\* Relocate and Unrelocate of a file's words, which lie at base_file.
Relocate(word, t, base_file) ==
    FoldLeft(LAMBDA w, r : [o \in DOMAIN w |->
                IF o \in RelocatedWords(r.entry) /\ w[o] # 0 THEN r.base + w[o] ELSE w[o]],
             word, TableEntries(t, base_file))

\* What is taken back is the place of the pointer, not the pointer.
Unrelocate(word, t, base_file) ==
    FoldLeft(LAMBDA w, r : [o \in DOMAIN w |->
                IF o \in RelocatedWords(r.entry) THEN base_file + o - r.base ELSE w[o]],
             word, TableEntries(t, base_file))
-----------------------------------------------------------------------------
(* The files that are found through such a dictionary.  f.word are the words that
   are pointers, by their place in the file, which lies at f.base; f.node, f.key
   and f.entry are what lies at the other places.  vp::res::ResBea is relocated by
   every cast, vp::res::ResBntx by the first one. *)
RelocateFile(f) == [f EXCEPT !.word = Relocate(@, f.table, f.base), !.is_relocated = TRUE]

UnrelocateFile(f) == [f EXCEPT !.word = Unrelocate(@, f.table, f.base), !.is_relocated = FALSE]

BeaResCast(f) == RelocateFile(f)

\* Mutant: relocated whenever it is cast.
BntxResCast_Always(f) == RelocateFile(f)

BntxResCast(f) == IF f.is_relocated THEN f ELSE RelocateFile(f)

cEntryArray == 5
cDictionary == 6

\* The dictionary as its pointers lead to it: a node is two words, the key the second.
FileDictionary(f) ==
    LET at == f.word[cDictionary] - f.base
    IN  [i \in DOMAIN f.node |-> f.node[i] @@ [key |-> f.key[f.word[at + 2 * i + 1] - f.base]]]

EntryAt(f, index) == f.entry[f.word[f.word[cEntryArray] - f.base + index] - f.base]

\* ResBea's, and ResBntx::FindTexture: {} for a null pointer.
TryGetFileEntryByPath(f, path) ==
    LET index == TryGetEntryIndexByKey(FileDictionary(f), path)
    IN  IF index = cInvalid THEN {} ELSE {EntryAt(f, index)}

TryGetFileEntryByIndex(f, index) == IF f.file_count <= index THEN {} ELSE {EntryAt(f, index)}

\* awn::res::BeaArchiveResource: what it answers of an entry.
FileReturn(f, e) == [e EXCEPT !.file = f.base + @]

BeaTryGetFileByIndex(f, index) == {FileReturn(f, e) : e \in TryGetFileEntryByIndex(f, index)}

BeaTryGetFileByPath(f, path) == {FileReturn(f, e) : e \in TryGetFileEntryByPath(f, path)}

BeaTryReadDirectoryEntryByIndex(f, index) ==
    IF f.file_count <= index THEN {}
    ELSE {[archive_entry_index |-> index, file_path |-> GetKeyByEntryIndex(FileDictionary(f), index)]}
=============================================================================
