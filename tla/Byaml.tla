-------------------------------- MODULE Byaml --------------------------------
(* vp::res: reading a byaml file in either byte order (ByamlIterator and the
   iterators of its tables) and swapping its byte order in place
   (ResByaml::SwapByamlEndian).  A file is its header and the blocks at their
   offsets; a word is a small number or the large one its bytes spell the other
   way round.  The result of a look-up is {} for false, else what was found. *)
EXTENDS Integers, Sequences, FiniteSets

Swapped == 1000     \* the numbers above stand for the swapped ones
SwapEndian(w) == IF w = 0 THEN 0 ELSE IF w < Swapped THEN w + Swapped ELSE w - Swapped
Host(w, is_reverse_endian) == IF is_reverse_endian THEN SwapEndian(w) ELSE w

cMagic == 1
cInvalidKeyIndex == 999

\* ResByamlContainer and what follows it: keys are the key indices of a
\* dictionary or the hashes of a hash array, values its words (of a string table
\* the offsets, of big data the data), chars the strings of a table.
NoBlock == [type |-> "null", count |-> 0, keys |-> <<>>, types |-> <<>>,
            values |-> <<0, 0>>, remap |-> <<>>, chars |-> [o \in {} |-> 0]]

Block(f, offset) == IF offset \in DOMAIN f.at THEN f.at[offset] ELSE NoBlock
Entry(s, i) == IF i \in DOMAIN s THEN s[i] ELSE 0
TypeAt(b, index) == IF index + 1 \in DOMAIN b.types THEN b.types[index + 1] ELSE "null"

HashTypes == {"hash1", "hash2", "hash3"}
DictionaryTypes == {"dictionary", "dictionary_remap"}
ArrayTypes == {"array", "mono_array"}
IsContainerType(t) == t \in HashTypes \cup DictionaryTypes \cup ArrayTypes
SmallTypes == {"bool", "s32", "f32", "u32", "string"}
BigTypes == {"s64", "u64", "f64", "binary", "binary_aligned"}

IsReverseEndian(f) == f.magic = SwapEndian(cMagic)
GetCount(b, r) == Host(b.count, r)

-----------------------------------------------------------------------------
(* The checks of a file, and its string tables. *)
StringStart(b, i, r) == Host(Entry(b.values, i), r)

GetStringByIndex(b, i, r) ==
    LET o == StringStart(b, i + 1, r)
    IN  IF o \in DOMAIN b.chars THEN b.chars[o] ELSE 0

\* The test of the order of two strings is made on an unsigned number: it only
\* refuses equal ones.
VerifyStringTable(b, r) ==
    LET n == GetCount(b, r)
    IN  /\ b.type = "key_table" /\ n # 0
        /\ \A i \in 1..n :
             /\ StringStart(b, i + 1, r) \in DOMAIN b.chars
             /\ StringStart(b, i, r) <= StringStart(b, i + 1, r)
             /\ i < n => GetStringByIndex(b, i - 1, r) # GetStringByIndex(b, i, r)

FinalOffset(b, r) == StringStart(b, GetCount(b, r) + 1, r)

IsValid(f) ==
    LET r == IsReverseEndian(f)
        keys == Block(f, Host(f.key_table_offset, r))
        strings == Block(f, Host(f.string_table_offset, r))
    IN  /\ Host(f.magic, r) = cMagic
        /\ f.key_table_offset # 0 => VerifyStringTable(keys, r)
        /\ f.string_table_offset # 0 => VerifyStringTable(strings, r)
        /\ (f.key_table_offset # 0 \/ f.string_table_offset # 0) => f.data_offset # 0
        /\ f.key_table_offset # 0 =>
             /\ f.string_table_offset # 0 => Host(f.string_table_offset, r) >= FinalOffset(keys, r)
             /\ f.data_offset # 0 => f.data_offset >= FinalOffset(keys, r)
        /\ (f.string_table_offset # 0 /\ f.data_offset # 0)
             => FinalOffset(strings, r) <= f.data_offset

\* The binary search that the tables and the dictionaries use: where key is among
\* the sorted at[0], at[1], ... with the indices from i to size - 1.
RECURSIVE Search(_, _, _, _)
Search(at, key, i, size) ==
    LET index == (i + size) \div 2
    IN  IF i >= size THEN {}
        ELSE IF key = at[index] THEN {index}
        ELSE IF at[index] < key THEN Search(at, key, index + 1, size)
        ELSE Search(at, key, i, index)

TryFindKeyIndexByKey(b, key, r) ==
    Search([i \in 0..GetCount(b, r) - 1 |-> GetStringByIndex(b, i, r)], key, 0, GetCount(b, r))

KeyTable(f) == Block(f, Host(f.key_table_offset, IsReverseEndian(f)))

\* An iterator is the file and the data of its container: [type, value, key_index].
NoData == [type |-> "null", value |-> 0, key_index |-> cInvalidKeyIndex]

\* ByamlIterator(const void *): of data that is no container, the second word.
RootIterator(f) ==
    LET r == IsReverseEndian(f)
        o == Host(f.data_offset, r)
        b == Block(f, o)
        single == ~IsContainerType(b.type) /\ b.type # "null"
    IN  IF ~IsValid(f) THEN {}
        ELSE IF f.data_offset = 0 THEN {[NoData EXCEPT !.key_index = 0]}
        ELSE {[type |-> b.type, key_index |-> 0,
               value |-> IF single THEN Host(Entry(b.values, 2), r) ELSE o]}

Container(f, it) == Block(f, it.value)

-----------------------------------------------------------------------------
(* The look-ups. *)
RemapIndex(b, index) == IF b.type = "dictionary_remap" THEN Entry(b.remap, index + 1) ELSE index

SetPair(b, index, r) ==
    [type |-> TypeAt(b, index), key_index |-> Host(Entry(b.keys, index + 1), r),
     value |-> Host(Entry(b.values, index + 1), r)]

FindPair(f, it, key) ==
    LET r == IsReverseEndian(f)
        b == Container(f, it)
        at == [i \in 0..GetCount(b, r) - 1 |->
                 GetStringByIndex(KeyTable(f), Host(Entry(b.keys, i + 1), r), r)]
    IN  IF f.key_table_offset = 0 \/ it.type \notin DictionaryTypes THEN {}
        ELSE Search(at, key, 0, GetCount(b, r))

TryGetByamlDataByKey(f, it, key) ==
    {SetPair(Container(f, it), index, IsReverseEndian(f)) : index \in FindPair(f, it, key)}

TryRemapIndexByKey(f, it, key) ==
    {RemapIndex(Container(f, it), index) : index \in FindPair(f, it, key)}

TryGetKeyByData(f, data) ==
    IF data.key_index = cInvalidKeyIndex THEN {}
    ELSE {GetStringByIndex(KeyTable(f), data.key_index, IsReverseEndian(f))}

TryGetKeyIndexByKey(f, key) == TryFindKeyIndexByKey(KeyTable(f), key, IsReverseEndian(f))

\* The types of a hash array are read four bytes too early: the first four are
\* the bytes of the last value.
HashTypeAt(b, index) == IF index >= 4 THEN TypeAt(b, index - 4) ELSE "null"

\* GetHash knows keys of one and of two words.
GetHash(b, index, r) == IF b.type = "hash3" THEN 0 ELSE Host(Entry(b.keys, index + 1), r)

TryGetByamlDataByHash(f, it, hash) ==
    LET r == IsReverseEndian(f)
        b == Container(f, it)
        at == [i \in 0..GetCount(b, r) - 1 |-> GetHash(b, i, r)]
    IN  IF f.key_table_offset = 0 \/ it.type \notin HashTypes THEN {}
        ELSE {[type |-> HashTypeAt(b, index), key_index |-> index,
               value |-> Host(Entry(b.values, index + 1), r)] : index \in Search(at, hash, 0, GetCount(b, r))}

DictionaryDataByIndex(b, index, r) ==
    IF index >= GetCount(b, r) THEN {} ELSE {SetPair(b, RemapIndex(b, index), r)}

ArrayDataByIndex(b, index, r) ==
    IF index >= GetCount(b, r) THEN {}
    ELSE {[type |-> TypeAt(b, IF b.type = "mono_array" THEN 0 ELSE index),
           key_index |-> cInvalidKeyIndex, value |-> Host(Entry(b.values, index + 1), r)]}

HashDataByIndex(b, index, r) ==
    IF index >= GetCount(b, r) THEN {}
    ELSE {[type |-> HashTypeAt(b, index), key_index |-> index, value |-> Host(Entry(b.values, index + 1), r)]}

TryGetByamlDataByIndex(f, it, index) ==
    LET r == IsReverseEndian(f)
        b == Container(f, it)
    IN  CASE it.type \in DictionaryTypes -> DictionaryDataByIndex(b, index, r)
          [] it.type \in ArrayTypes -> ArrayDataByIndex(b, index, r)
          [] it.type \in HashTypes -> HashDataByIndex(b, index, r)
          [] OTHER -> {}

-----------------------------------------------------------------------------
(* What data found by key, by index or by hash says. *)
TryGetValueByData(data, type) == IF data.type = type THEN {data.value} ELSE {}

\* The 64-bit numbers: a 32-bit one is widened, else the data is at its offset.
TryGetWideByData(f, data, narrow, wide) ==
    IF data.type = narrow THEN {data.value}
    ELSE IF data.type = wide THEN {Host(Entry(Block(f, data.value).values, 1), IsReverseEndian(f))}
    ELSE {}

TryGetS64ByData(f, data) == TryGetWideByData(f, data, "s32", "s64")
TryGetU64ByData(f, data) == TryGetWideByData(f, data, "u32", "u64")
TryGetF64ByData(f, data) == TryGetWideByData(f, data, "f32", "f64")

TryGetBinaryDataByData(f, data) ==
    LET At(i) == Host(Entry(Block(f, data.value).values, i), IsReverseEndian(f))
    IN  CASE data.type = "binary" -> {[size |-> At(1), alignment |-> 0]}
          [] data.type = "binary_aligned" -> {[size |-> At(1), alignment |-> At(2)]}
          [] OTHER -> {}

TryGetStringByData(f, data) ==
    LET r == IsReverseEndian(f)
    IN  IF data.type # "string" THEN {}
        ELSE {GetStringByIndex(Block(f, Host(f.string_table_offset, r)), data.value, r)}

TryGetIteratorByData(data) ==
    IF IsContainerType(data.type) THEN {data}
    ELSE IF data.type = "null" THEN {NoData} ELSE {}

\* TryGetValueByKey, TryGetValueByIndex and TryGetValueByHash of a type T, and
\* the calls that name the type: what was found, read as that type.
TryGetValue(f, found, type) ==
    UNION {CASE type = "s64" -> TryGetS64ByData(f, data)
             [] type = "u64" -> TryGetU64ByData(f, data)
             [] type = "f64" -> TryGetF64ByData(f, data)
             [] type = "string" -> TryGetStringByData(f, data)
             [] OTHER -> TryGetValueByData(data, type) : data \in found}

ValueByKey(f, it, key, type) == TryGetValue(f, TryGetByamlDataByKey(f, it, key), type)
ValueByIndex(f, it, index, type) == TryGetValue(f, TryGetByamlDataByIndex(f, it, index), type)
BinaryByKey(f, it, key) == UNION {TryGetBinaryDataByData(f, d) : d \in TryGetByamlDataByKey(f, it, key)}
BinaryByIndex(f, it, i) == UNION {TryGetBinaryDataByData(f, d) : d \in TryGetByamlDataByIndex(f, it, i)}
IteratorByKey(f, it, key) == UNION {TryGetIteratorByData(d) : d \in TryGetByamlDataByKey(f, it, key)}
IteratorByIndex(f, it, i) == UNION {TryGetIteratorByData(d) : d \in TryGetByamlDataByIndex(f, it, i)}

-----------------------------------------------------------------------------
(* Swapping a file without remap tables.  s is the file and, in cache, the
   offsets of the big data met: ByamlBigDataCache::Cache. *)
IsNew_Always(s, offset) == TRUE
IsNew(s, offset) == offset \notin s.cache
Cache(s, offset) == [s EXCEPT !.cache = @ \cup {offset}]

SwapData(s, o, indices) ==
    [s EXCEPT !.f.at[o].values = [i \in DOMAIN @ |-> IF i \in indices THEN SwapEndian(@[i]) ELSE @[i]]]

RECURSIVE SwapEndianData(_, _, _), SwapEndianForBigData(_, _, _), SwapEntries(_, _, _), SwapEndianDataContainer(_, _)

\* The word itself is swapped by the caller: it becomes 0 when its type is none
\* of these.
SwappedWord(type, w) ==
    IF type \in SmallTypes \cup BigTypes \/ IsContainerType(type) THEN SwapEndian(w) ELSE 0

SwapEndianData(s, type, w) ==
    LET offset == SwapEndian(w)
    IN  IF ~(type \in BigTypes \/ IsContainerType(type)) \/ ~IsNew(s, offset) THEN s
        ELSE SwapEndianForBigData(Cache(s, offset), type, offset)

SwapEndianForBigData(s, type, w) ==
    LET o == Host(w, IsReverseEndian(s.f))
    IN  CASE o \notin DOMAIN s.f.at -> s
          [] o \in DOMAIN s.f.at /\ IsContainerType(type) -> SwapEndianDataContainer(s, o)
          [] o \in DOMAIN s.f.at /\ type = "binary_aligned" -> SwapData(s, o, {1, 2})
          [] OTHER -> SwapData(s, o, {1})

\* SwapEndianDictionary, SwapEndianArray and SwapEndianHashArray, from their
\* i-th entry on.
SwapEntries(s, o, i) ==
    LET b == s.f.at[o]
        type == TypeAt(b, IF b.type = "mono_array" THEN 0 ELSE i - 1)
        w == Entry(b.values, i)
        keyed == IF b.type \in ArrayTypes THEN s
                 ELSE [s EXCEPT !.f.at[o].keys[i] = SwapEndian(@)]
        below == SwapEndianData(keyed, type, w)
    IN  IF i > GetCount(b, IsReverseEndian(s.f)) \/ i > Len(b.values) THEN s
        ELSE SwapEntries([below EXCEPT !.f.at[o].values[i] = SwappedWord(type, w)], o, i + 1)

\* Hash arrays with keys of more than two words keep theirs.
SwapEndianDataContainer(s, o) ==
    LET swapped == [s EXCEPT !.f.at[o].count = SwapEndian(@)]
    IN  IF s.f.at[o].type = "hash3" THEN swapped ELSE SwapEntries(swapped, o, 1)

SwapStringTableEndian(s, o) ==
    LET cached == Cache(s, o)
        n == GetCount(Block(s.f, o), ~IsReverseEndian(s.f))
    IN  IF o = 0 \/ ~IsNew(s, o) THEN s
        ELSE IF Block(s.f, o).type # "key_table" THEN cached
        ELSE SwapData([cached EXCEPT !.f.at[o].count = SwapEndian(@)], o, 1..n + 1)

SwapRootContainerEndian(s, o) ==
    IF o = 0 \/ ~IsNew(s, o) THEN s
    ELSE IF ~IsContainerType(Block(s.f, o).type) THEN Cache(s, o)
    ELSE SwapEndianDataContainer(Cache(s, o), o)

SwapHeader(f) ==
    [f EXCEPT !.magic = SwapEndian(@), !.key_table_offset = SwapEndian(@),
              !.string_table_offset = SwapEndian(@), !.data_offset = SwapEndian(@)]

SwapByamlEndian(f) ==
    LET h == SwapHeader(f)
        At(o) == Host(o, IsReverseEndian(h))
        keyed == SwapStringTableEndian([f |-> h, cache |-> {}], At(h.key_table_offset))
        named == SwapStringTableEndian(keyed, At(h.string_table_offset))
    IN  SwapRootContainerEndian(named, At(h.data_offset)).f
=============================================================================
