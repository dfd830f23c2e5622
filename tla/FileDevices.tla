---------------------------- MODULE FileDevices ----------------------------
(* res::FileDeviceBase and what SystemFileDevice and ArchiveFileDevice make of it.
   A world w is [disk, open, directories]: what Windows has, the content of each
   path, the paths somebody has open, as no file is shared, and the folders.  A
   path is the sequence of its names, content the sequence of its bytes.  Each
   operation gives its result and what it changes. *)
EXTENDS Integers, Sequences, SequencesExt, TLC

CONSTANTS Root     \* "content" or "save", which FormatPath puts in front
CONSTANTS Words, DivAlignment    \* how many values a u32 has; what read_div is a multiple of

NoPath == <<>>
\* Nothing opened through a device names the device in file_device.
NoHandle == [handle |-> NoPath, open_mode |-> {}, file_size |-> 0]

FormatPath(path) == <<Root>> \o path

-----------------------------------------------------------------------------
(* SystemFileDevice, on the calls of Windows. *)
\* CreateFile, OPEN_EXISTING and shared with nobody (ConvertWin32ErrorToResult).
Win32Open(w, path) ==
    IF path \notin DOMAIN w.disk THEN "FileNotFound"
    ELSE IF path \in w.open THEN "FileSharingViolation" ELSE "Success"

OpenFile(w, path, open_mode) ==
    LET f == FormatPath(path)
    IN  IF open_mode = {} \/ Win32Open(w, f) # "Success"
        THEN [world |-> w, handle |-> NoHandle,
              result |-> IF open_mode = {} THEN "InvalidOpenMode" ELSE Win32Open(w, f)]
        ELSE [world |-> [w EXCEPT !.open = @ \cup {f}], result |-> "Success",
              handle |-> [handle |-> f, open_mode |-> open_mode, file_size |-> Len(w.disk[f])]]

CloseFile(w, h) ==
    IF h.handle = NoPath THEN [world |-> w, handle |-> h, result |-> "InvalidFileHandle"]
    ELSE [world |-> [w EXCEPT !.open = @ \ {h.handle}], result |-> "Success",
          handle |-> [h EXCEPT !.handle = NoPath, !.file_size = 0]]

\* FileHandle::Close: the handle of no device is closed by nobody.
Close(w, h) == w

Position(offset) == offset

\* For sizes a u32 holds.
ReadFile(w, h, read_size, offset) ==
    IF h.handle = NoPath THEN [result |-> "InvalidFileHandle", bytes |-> <<>>]
    ELSE IF "Read" \notin h.open_mode THEN [result |-> "InvalidOpenMode", bytes |-> <<>>]
    ELSE IF offset >= h.file_size THEN [result |-> "InvalidFileOffset", bytes |-> <<>>]
    ELSE [result |-> "Success",
          bytes |-> LET file == w.disk[h.handle]
                        first == Position(offset) + 1
                        last == Position(offset) + read_size
                    IN  SubSeq(file, first, IF last < Len(file) THEN last ELSE Len(file))]

\* What lies between the end and the offset is zero.
Overwritten(file, bytes, offset) ==
    [i \in 1 .. (IF Len(file) < offset + Len(bytes) THEN offset + Len(bytes) ELSE Len(file)) |->
        IF i \in offset + 1 .. offset + Len(bytes) THEN bytes[i - offset]
        ELSE IF i <= Len(file) THEN file[i] ELSE 0]

\* Only what lies behind the end the file had when it was opened is written.
MayWriteAt_Anywhere(h, offset) == TRUE
MayWriteAt(h, offset) == h.file_size < offset

WriteFile(w, h, bytes, offset) ==
    IF h.handle = NoPath THEN [result |-> "InvalidFileHandle", world |-> w]
    ELSE IF bytes = <<>> THEN [result |-> "InvalidSize", world |-> w]
    ELSE IF "Write" \notin h.open_mode THEN [result |-> "InvalidOpenMode", world |-> w]
    ELSE IF ~MayWriteAt(h, offset) THEN [result |-> "InvalidFileOffset", world |-> w]
    ELSE [result |-> "Success",
          world |-> [w EXCEPT !.disk[h.handle] = Overwritten(@, bytes, Position(offset))]]

GetFileSizeOfHandle(h) ==
    [result |-> IF h.handle = NoPath THEN "InvalidFileHandle" ELSE "Success", size |-> h.file_size]

\* The path is formatted here and once more by OpenFile.
GetFileSizeOfPath(w, path) ==
    LET opened == OpenFile(w, FormatPath(path), {"Read"})
    IN  IF opened.result # "Success" THEN [world |-> w, result |-> opened.result, size |-> 0]
        ELSE [world |-> CloseFile(opened.world, opened.handle).world, result |-> "Success",
              size |-> opened.handle.file_size]

CheckFileExists(w, path) ==
    IF FormatPath(path) \in DOMAIN w.disk \cup w.directories THEN "Success" ELSE "FileNotFound"

CheckDirectoryExists(w, path) ==
    IF FormatPath(path) \in w.directories THEN "Success" ELSE "DirectoryNotFound"

\* FileDeviceBase::CreateDirectory; Windows makes a folder in a folder that is there.
CreateDirectory(w, path) ==
    LET f == FormatPath(path)
    IN  IF CheckDirectoryExists(w, path) = "Success" THEN [world |-> w, result |-> "Success"]
        ELSE IF f \in DOMAIN w.disk \/ Front(f) \notin w.directories THEN [world |-> w, result |-> "PathNotFound"]
        ELSE [world |-> [w EXCEPT !.directories = @ \cup {f}], result |-> "Success"]

-----------------------------------------------------------------------------
(* FileDeviceBase: whole files.  A context is [buffer, file_size, read_div,
   out_is_file_memory_allocated]; its buffer is "null" or the bytes in it. *)
Null == <<"null">>

\* One block after the other; the device may fail at the one at offset bad.
RECURSIVE ReadBlocks(_, _, _, _, _, _)
ReadBlocks(w, h, read_clamp, offset, bytes, bad) ==
    LET read == ReadFile(w, h, read_clamp, offset)
        next == offset + Len(read.bytes)
    IN  IF read.result # "Success" THEN [result |-> read.result, bytes |-> bytes]
        ELSE IF offset = bad THEN [result |-> "UnknownOSError", bytes |-> bytes]
        ELSE IF next >= h.file_size THEN [result |-> "Success", bytes |-> bytes \o read.bytes]
        ELSE IF read.bytes = <<>> THEN [result |-> "never returns", bytes |-> bytes]
        ELSE ReadBlocks(w, h, read_clamp, next, bytes \o read.bytes, bad)

\* On an error the guard frees what was allocated.
Refused(w, c, result) ==
    [world |-> w, result |-> result,
     context |-> IF c.out_is_file_memory_allocated THEN [c EXCEPT !.buffer = Null] ELSE c]

LoadFile(w, path, c, no_memory, bad) ==
    LET opened == OpenFile(w, path, {"Read"})
        world == Close(opened.world, opened.handle)
        file_size == opened.handle.file_size
        x == IF c.buffer # Null THEN c
             ELSE [c EXCEPT !.buffer = <<>>, !.file_size = file_size, !.out_is_file_memory_allocated = TRUE]
        read == ReadBlocks(opened.world, opened.handle,
                           IF c.read_div = 0 THEN file_size % Words ELSE c.read_div, 0, <<>>, bad)
    IN  IF c.buffer # Null /\ c.file_size = 0
        THEN [world |-> w, context |-> c, result |-> "InvalidFileBufferSize"]
        ELSE IF c.read_div % DivAlignment # 0
        THEN [world |-> w, context |-> c, result |-> "InvalidReadDivAlignment"]
        ELSE IF opened.result # "Success" THEN [world |-> world, context |-> c, result |-> opened.result]
        ELSE IF c.buffer = Null /\ no_memory
        THEN [world |-> world, context |-> c, result |-> "FailedToAllocateFileMemory"]
        ELSE IF x.file_size < file_size THEN Refused(world, x, "InvalidFileBufferSize")
        ELSE IF read.result # "Success" THEN Refused(world, x, read.result)
        ELSE [world |-> world, context |-> [x EXCEPT !.buffer = read.bytes], result |-> "Success"]

SaveFile(w, path, bytes) ==
    LET opened == OpenFile(w, path, {"Write"})
        written == WriteFile(opened.world, opened.handle, bytes, 0)
    IN  IF opened.result # "Success" THEN [world |-> w, result |-> opened.result]
        ELSE [world |-> Close(written.world, opened.handle), result |-> written.result]

\* As much of the source as the buffer holds.
CopyFile(w, dest_path, source_path, copy_size) ==
    LET src == OpenFile(w, source_path, {"Read"})
        dst == OpenFile(src.world, dest_path, {"Write"})
        read == ReadFile(dst.world, src.handle, copy_size, 0)
        written == WriteFile(dst.world, dst.handle, read.bytes, 0)
    IN  IF copy_size = 0 THEN [world |-> w, result |-> "NullOutBuffer"]
        ELSE IF src.result # "Success" THEN [world |-> w, result |-> src.result]
        ELSE IF dst.result # "Success" THEN [world |-> Close(src.world, src.handle), result |-> dst.result]
        ELSE IF read.result # "Success" THEN [world |-> dst.world, result |-> read.result]
        ELSE [world |-> Close(Close(written.world, dst.handle), src.handle), result |-> written.result]

-----------------------------------------------------------------------------
(* ArchiveFileDevice, on an archive: the sequence of its [path, file]. *)
EntryOf(archive, path) == {i \in DOMAIN archive : archive[i].path = path}

\* Only what is not opened to be read.
ArchiveOpenFile(archive, path, open_mode) ==
    IF "Read" \in open_mode THEN [result |-> "InvalidOpenMode", entry |-> {}]
    ELSE [result |-> IF EntryOf(archive, path) = {} THEN "PathNotFound" ELSE "Success", entry |-> EntryOf(archive, path)]

\* Of the n bytes at an offset that lie in the file; more is not refused.
ArchiveReadFile(archive, entry, n, offset) == SubSeq(archive[entry].file, offset + 1, offset + n)

ArchiveGetFileReference(archive, path) == {archive[i].file : i \in EntryOf(archive, path)}

ArchiveGetFileSize(archive, path) == {Len(archive[i].file) : i \in EntryOf(archive, path)}

\* The handle stays at its entry.
ArchiveReadDirectory(archive, handle, entry_count) ==
    LET end == IF Len(archive) <= handle.entry_index + entry_count THEN Len(archive)
               ELSE handle.entry_index + entry_count
    IN  [entries |-> [i \in 1 .. end - handle.entry_index |-> archive[handle.entry_index + i].path],
         result |-> IF end = Len(archive) THEN "DirectoryExhausted" ELSE "Success", handle |-> handle]

-----------------------------------------------------------------------------
(* The registries a load of a resource goes through.  m is [initialized, drives,
   factories, resources]: whether there is the device of the content, the drives
   mounted, the extensions that have a factory, and how many resources exist.  A
   path is [drive, names, extension]; all drives are of the world w here. *)
NoRegistry == [initialized |-> FALSE, drives |-> {}, factories |-> {}, resources |-> 0]

AddFileDevice(m, drive) == [m EXCEPT !.drives = @ \cup {drive}]
RegistryInitialize(m) == [AddFileDevice(m, "content") EXCEPT !.initialized = TRUE]

\* The tree of devices keeps the one that is gone.
RegistryFinalize(m) == [m EXCEPT !.initialized = FALSE]

GetFileDeviceByPath(m, path) == IF path.drive \in m.drives THEN path.drive ELSE "null"

\* FileDeviceManager::LoadFile: without a device the null one is called.
LoadFileByDrive(m, w, path, c, no_memory, bad) ==
    IF GetFileDeviceByPath(m, path) = "null" THEN [world |-> w, context |-> c, result |-> "crash"]
    ELSE LoadFile(w, path.names, c, no_memory, bad)

RegisterResourceFactory(m, extension) == [m EXCEPT !.factories = @ \cup {extension}]
RemoveResourceFactory(m, extension) == [m EXCEPT !.factories = @ \ {extension}]
FindResourceFactory(m, extension) == IF extension \in m.factories THEN extension ELSE "default"

\* ResourceFactoryManager: the factory of the load, or else the extension's.
FactoryOf(m, path, factory) == IF factory # "null" THEN factory ELSE FindResourceFactory(m, path.extension)

\* A load that is refused deletes the resource it made.
Unmade_Kept(m) == [m EXCEPT !.resources = @ + 1]
Unmade(m) == m

\* The factory's LoadResource: what the load of the file gave, and who made the
\* resource.
MakeResource(m, factory, no_resource, l) ==
    IF no_resource THEN [manager |-> m, result |-> "ResourceAllocationFailed", resource |-> {}]
    ELSE IF l.result # "Success" THEN [manager |-> Unmade(m), result |-> l.result, resource |-> {}]
    ELSE [manager |-> [m EXCEPT !.resources = @ + 1], result |-> "Success",
          resource |-> {[factory |-> factory, file |-> l.context.buffer, file_size |-> l.context.file_size]}]

LoadResource(m, path, factory, no_resource, l) == MakeResource(m, FactoryOf(m, path, factory), no_resource, l)

\* Without a decompressor the resource just made is forgotten; a load that ends
\* has the context of the decompressed file.
LoadResourceWithDecompressor(m, path, factory, no_resource, has_decompressor, l) ==
    IF ~no_resource /\ ~has_decompressor
    THEN [manager |-> [m EXCEPT !.resources = @ + 1], result |-> "InvalidDecompressor", resource |-> {}]
    ELSE MakeResource(m, FactoryOf(m, path, factory), no_resource, l)

-----------------------------------------------------------------------------
(* ExtensionManager: its array of [extension, compression_type], sorted. *)
ExtensionManagerInitialize(infos) == SortSeq(infos, LAMBDA d, e : d.extension < e.extension)

\* The half is chosen by index, but the entry at i is looked at, and answered.
RECURSIVE ExtensionSearch(_, _, _, _)
ExtensionSearch(array, extension, i, size) ==
    LET index == (i + size) \div 2
    IN  IF i >= size THEN {}
        ELSE IF extension = array[i + 1].extension THEN {i}
        ELSE IF array[i + 1].extension < extension THEN ExtensionSearch(array, extension, index + 1, size)
        ELSE ExtensionSearch(array, extension, i, index)

GetExtensionIndex(array, extension) == ExtensionSearch(array, extension, 0, Len(array))

GetCompressionExtension(array, extension) ==
    LET found == GetExtensionIndex(array, extension)
    IN  IF found = {} THEN {"Auto"} ELSE {array[i + 1].compression_type : i \in found}

\* Each extension has units of its own, behind those of all the others.
GetResourceUnitManager(array, extension) ==
    LET found == GetExtensionIndex(array, extension)
    IN  IF found = {} THEN {0} ELSE {i + 1 : i \in found}
=============================================================================
