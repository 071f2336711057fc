------------------------------ MODULE Storage -------------------------------
(***************************************************************************)
(* Web storage (src/frontend/storage/storage_service.cc): the files and    *)
(* folders of one user, kept in one row of the key-value store. The row    *)
(* has, for every path, a marker ("KV-File", "KV-Folder", "DEL KV-Folder") *)
(* and a column "-metadata": for a folder the list of the paths of its     *)
(* items, for a file the list of its chunks, each of which has a           *)
(* "-content" column.                                                      *)
(*                                                                         *)
(* A request reads, decides and then writes column after column; here a    *)
(* request is laid out as the sequence of its writes when it starts, and   *)
(* each write is a step. One request runs at a time.                       *)
(*                                                                         *)
(* A path is a sequence of names, a name a sequence: what the user typed   *)
(* and the numbers added to it ("a(1)" is <<a, 1>>). The chunk number of a *)
(* file's chunk is added to its last name as a negative number ("a-1" is   *)
(* <<a, -1>>). A list value is the sequence of its comma-separated parts:  *)
(* the empty string is the one blank part, and the text of an error that   *)
(* the code takes for a list is the one part ErrPath.                      *)
(***************************************************************************)
EXTENDS Kvs, Integers, Sequences, SequencesExt

CONSTANTS
  FileName,    \* names of files: with an extension
  FolderName,  \* names of folders: without one
  Data,        \* contents of files
  Size,        \* the number of chunks of each content, at least one
  Within,      \* <<n, m>>: the name m occurs inside the name n
  Cases,       \* the requests made in these states are included:
               \*   "stale":     on a folder whose list, or a list below it,
               \*                holds paths from before a rename
               \*   "substring": a deletion of a name that occurs in the path
               \*                of a neighbour
               \*   "missing":   an upload or move into a folder that has no
               \*                list column
  MaxDepth,    \* bound: length of paths
  MaxRequests, \* bound: requests that change the row
  MaxSuffix    \* bound: numbers added to a name, and their size

VARIABLES
  row,     \* the row <user>-storage
  todo,    \* the writes the request has still to do
  req,     \* the request: its kind and the path it is about
  files,   \* what the pages show since the last request was answered: the
  folders, \*   files with their contents, and the folders
  count    \* requests so far (bounded by MaxRequests)

vars == <<row, todo, req, files, folders, count>>

-----------------------------------------------------------------------------
(* Columns and values.                                                     *)

Marker(p) == <<"marker", p>>
Metadata(p) == <<"metadata", p>>
ContentCol(chunk) == <<"content", chunk>>

\* The list of a folder; that of the root is in the column "metadata", which
\* no path has.
ListCol(p) == IF p = << >> THEN <<"metadata">> ELSE Metadata(p)

Blank == << >>
ErrPath == <<<<"ERR">>>>

\* splitStringStorage, and the joining of the parts.
Split(v) == IF v = ERR THEN <<ErrPath>> ELSE v

Join(s) == IF s = << >> THEN <<Blank>> ELSE s

IsErr(v) == Head(Split(v)) = ErrPath
IsEmpty(v) == v = <<Blank>>

\* The part after the last slash; the empty name of a blank entry.
Local(p) == IF p = Blank THEN <<"">> ELSE Last(p)
Parent(p) == Front(p)
Child(p, name) == Append(p, name)

Chunk(p, i) == Child(Parent(p), Append(Last(p), -i))
ChunkNo(chunk) == -Last(Last(chunk))

PutW(c, v) == [op |-> "put", col |-> c, val |-> v]
DeleteW(c) == [op |-> "delete", col |-> c]
CPutW(c, cur, v) == [op |-> "cput", col |-> c, cur |-> cur, val |-> v]

Apply(r, w) == CASE w.op = "put"    -> Put(r, w.col, w.val)
                 [] w.op = "delete" -> Delete(r, w.col)
                 [] w.op = "cput"   -> CPut(r, w.col, w.cur, w.val)

\* The row after a sequence of writes.
Run(r, ws) == FoldLeft(Apply, r, ws)

\* W(r, x) for every x of a sequence in turn, each on the row the earlier ones
\* leave.
ForEach(W(_, _), r, xs) ==
  FoldLeft(LAMBDA ws, x : ws \o W(Run(r, ws), x), << >>, xs)

-----------------------------------------------------------------------------
(* What the pages show.                                                    *)

Marked(r, marker) ==
  {q \in {c[2] : c \in {d \in DOMAIN r : d[1] = "marker"}} : r[Marker(q)] = marker}

\* webStorageList: the list's local names that have a marker in this folder.
Shown(r, p, marker) ==
  LET l == Get(r, ListCol(p)) IN
  IF IsErr(l) THEN {}
  ELSE {Child(p, Local(e)) : e \in {x \in ToSet(l) : x # Blank}}
         \cap Marked(r, marker)

RECURSIVE FoldersBelow(_, _)
FoldersBelow(r, p) ==
  LET here == Shown(r, p, "KV-Folder")
  IN here \cup UNION {FoldersBelow(r, q) : q \in here}

\* webStorageDownload: the chunks, one after the other.
Download(r, f) ==
  LET chunks == Split(Get(r, Metadata(f)))
  IN [i \in DOMAIN chunks |-> Get(r, ContentCol(chunks[i]))]

VisibleFiles(r) ==
  LET paths == UNION {Shown(r, p, "KV-File") : p \in FoldersBelow(r, << >>) \cup {<< >>}}
  IN [f \in paths |-> Download(r, f)]

-----------------------------------------------------------------------------
(* The writes of the recursive helpers.                                    *)

\* Mutation: the old column of a chunk is deleted before the new one is put.
DeleteThenPut(r, old, new) ==
  LET meta == Split(Get(r, Metadata(old)))
      Moved(c) == Chunk(new, ChunkNo(c))
      MoveChunk(s, c) ==
        <<DeleteW(ContentCol(c)), PutW(ContentCol(Moved(c)), Get(s, ContentCol(c)))>>
  IN ForEach(MoveChunk, r, meta)
       \o <<PutW(Metadata(new), [i \in DOMAIN meta |-> Moved(meta[i])]),
            DeleteW(Metadata(old)),
            PutW(Marker(new), "KV-File"), DeleteW(Marker(old))>>

\* A file's content and marker go from old to new: chunk by chunk, then the
\* list of the chunks, then the marker. Shared by moveFile, renameFolderRec,
\* renameFolderMoveRec and webStorageRenameFile.
MoveContent(r, old, new) ==
  LET meta == Get(r, Metadata(old))
      Moved(c) == Chunk(new, ChunkNo(c))
      MoveChunk(s, c) ==
        <<PutW(ContentCol(Moved(c)), Get(s, ContentCol(c))), DeleteW(ContentCol(c))>>
  IN (IF IsErr(meta) \/ IsEmpty(meta)
      THEN <<PutW(ContentCol(new), Get(r, ContentCol(old))), DeleteW(ContentCol(old))>>
      ELSE ForEach(MoveChunk, r, meta)
             \o <<PutW(Metadata(new), [i \in DOMAIN meta |-> Moved(meta[i])]),
                  DeleteW(Metadata(old))>>)
     \o <<PutW(Marker(new), "KV-File"), DeleteW(Marker(old))>>

\* Mutation: a folder is marked and unlisted, its items stay.
DeleteTop(r, p) ==
  IF Get(r, Marker(p)) = "KV-Folder"
  THEN <<PutW(Marker(p), "DEL KV-Folder"), DeleteW(Metadata(p))>>
  ELSE [i \in DOMAIN Split(Get(r, Metadata(p))) |->
          DeleteW(ContentCol(Split(Get(r, Metadata(p)))[i]))]
       \o <<DeleteW(Metadata(p)), DeleteW(Marker(p))>>

RECURSIVE DeleteRec(_, _)
DeleteRec(r, p) ==
  LET meta == Get(r, Metadata(p))
      none == IsErr(meta) \/ IsEmpty(meta)
      DeleteChunk(s, c) == <<DeleteW(ContentCol(c))>>
      first == <<PutW(Marker(p), "DEL KV-Folder"), DeleteW(Metadata(p))>>
  IN IF Get(r, Marker(p)) = "KV-Folder"
     THEN first \o IF none THEN << >> ELSE ForEach(DeleteRec, Run(r, first), meta)
     ELSE (IF none THEN << >>
           ELSE ForEach(DeleteChunk, r, meta) \o <<DeleteW(Metadata(p))>>)
          \o <<DeleteW(ContentCol(p)), DeleteW(Marker(p))>>

\* The list goes to the new folder as it is, with the paths of the old one.
RECURSIVE RenameFolderRec(_, _, _)
RenameFolderRec(r, old, new) ==
  LET list == Get(r, Metadata(old))
      first == <<PutW(Marker(new), "KV-Folder"), PutW(Metadata(new), list),
                 PutW(Marker(old), "DEL KV-Folder"), DeleteW(Metadata(old))>>
      RenameChild(s, c) ==
        IF Get(s, Marker(c)) = "KV-Folder"
        THEN RenameFolderRec(s, c, Child(new, Local(c)))
        ELSE MoveContent(s, c, Child(new, Local(c)))
  IN first \o ForEach(RenameChild, Run(r, first), Split(list))

\* The list is rebuilt with the new paths; children without a marker are left
\* where they are.
RECURSIVE RenameFolderMoveRec(_, _, _)
RenameFolderMoveRec(r, old, new) ==
  LET list == Get(r, Metadata(old))
      children == IF IsErr(list) THEN << >>
                  ELSE SelectSeq(list, LAMBDA e : e # Blank /\ e # old)
      first == <<PutW(Marker(new), "KV-Folder"),
                 PutW(Metadata(new),
                      Join([i \in DOMAIN children |-> Child(new, Local(children[i]))])),
                 PutW(Marker(old), "DEL KV-Folder"), DeleteW(Metadata(old))>>
      MoveChild(s, c) ==
        CASE Get(s, Marker(c)) = "KV-Folder" ->
               RenameFolderMoveRec(s, c, Child(new, Local(c)))
          [] Get(s, Marker(c)) = "KV-File"   ->
               MoveContent(s, c, Child(new, Local(c)))
          [] OTHER                           -> << >>
  IN first \o ForEach(MoveChild, Run(r, first), children)

\* Mutation: the entry in the source folder stays.
KeepListed(r, p) == << >>

\* Without path p, in the list of the folder it was in; a list that would be
\* left with no part is deleted.
Unlist(r, p) ==
  LET l == Split(Get(r, ListCol(Parent(p))))
      kept == SelectSeq(l, LAMBDA e : e # p)
  IN IF kept = << >> THEN <<DeleteW(ListCol(Parent(p)))>>
     ELSE <<PutW(ListCol(Parent(p)), kept)>>

Replace(l, old, new) == [i \in DOMAIN l |-> IF l[i] = old THEN new ELSE l[i]]

-----------------------------------------------------------------------------
(* States in which requests are only included on demand.                   *)

\* The list holds a path that is not one of this folder.
Stale(r, p) ==
  LET l == Get(r, ListCol(p))
  IN ~IsErr(l) /\ \E e \in ToSet(l) : e # Blank /\ Parent(e) # p

StaleBelow(r, p) == \E q \in FoldersBelow(r, p) \cup {p} : Stale(r, q)

\* The text of path p contains the name n.
Mentions(p, n) ==
  \E i \in DOMAIN p : p[i] = n \/ (Len(n) = 1 /\ <<p[i][1], n[1]>> \in Within)

Included(case, holds) == holds => case \in Cases

-----------------------------------------------------------------------------
(* The requests.                                                           *)

Nothing == [kind |-> "none", path |-> Blank]

Init ==
  /\ row = EmptyRow
  /\ todo = << >>
  /\ req = Nothing
  /\ files = << >>
  /\ folders = {}
  /\ count = 0

Idle == todo = << >>

Start(kind, p, ws) ==
  /\ count < MaxRequests
  /\ count' = count + 1
  /\ todo' = ws
  /\ req' = [kind |-> kind, path |-> p]
  /\ UNCHANGED <<row, files, folders>>

Folder == folders \cup {<< >>}

\* The first of p, p(1), p(2), ... whose marker is not one of these.
FreePath(r, p, markers) ==
  LET Numbered(i) == IF i = 0 THEN p ELSE Child(Parent(p), Append(Last(p), i))
      free == {i \in 0..(MaxSuffix + 1) : Get(r, Marker(Numbered(i))) \notin markers}
  IN Numbered(CHOOSE i \in free : \A j \in free : i <= j)

\* Bound: the numbers added to names.
InBounds(p) ==
  /\ Len(p) <= MaxDepth
  /\ \A i \in DOMAIN p : /\ Len(p[i]) <= MaxSuffix + 1
                         /\ \A j \in 2..Len(p[i]) : p[i][j] \in 1..MaxSuffix

\* webStorageList on a folder, or on one that was there when the page with the
\* link was made. A folder without a list gets an empty one.
ListFolder ==
  \E p \in Folder \cup Marked(row, "DEL KV-Folder") :
    /\ IsErr(Get(row, ListCol(p)))
    /\ Start("list", p, <<PutW(ListCol(p), <<Blank>>)>>)

\* Every upload brings a content the row does not hold.
Unused(r) == {d \in Data : \A c \in DOMAIN r : c[1] = "content" => r[c] # <<d, 1>>}

\* Mutation: the newest chunk comes first in the list.
StoreChunkFirst(r, f, c, x) ==
  LET meta == Get(r, Metadata(f)) IN
  <<PutW(Metadata(f), IF meta = ERR THEN <<c>> ELSE <<c>> \o meta),
    PutW(ContentCol(c), x)>>

\* One turn of the upload's loop: the chunk is listed, then stored.
StoreChunk(r, f, c, x) ==
  LET meta == Get(r, Metadata(f)) IN
  <<PutW(Metadata(f), IF meta = ERR THEN <<c>> ELSE Append(meta, c)),
    PutW(ContentCol(c), x)>>

\* webStorageUpload: marker, then for every chunk the longer list of chunks
\* and the chunk, then the folder's list with a conditional put.
Upload ==
  \E p \in Folder, n \in FileName, d \in Unused(row) :
    LET wanted == Child(p, <<n>>)
        f == FreePath(row, wanted, {"KV-File"})
        list == Get(row, ListCol(p))
        listed == f = wanted /\ \E e \in ToSet(Split(list)) : e = <<<<n>>>>
        Store(r, i) == StoreChunk(r, f, Chunk(f, i), <<d, i>>)
    IN /\ InBounds(f)
       /\ Included("missing", IsErr(list))
       /\ Start("upload", f,
            <<PutW(Marker(f), "KV-File")>>
              \o ForEach(Store, row, [i \in 1..Size[d] |-> i])
              \o <<CPutW(ListCol(p), list,
                         IF IsEmpty(list) THEN <<f>>
                         ELSE IF listed THEN list ELSE Append(Split(list), f))>>)

\* webStorageCreateFolder: the folder's list, the marker, an empty list.
CreateFolder ==
  \E p \in Folder, n \in FolderName :
    LET new == Child(p, <<n>>)
        list == Get(row, ListCol(p))
        listed == \E e \in ToSet(Split(list)) : e = <<<<n>>>>
    IN /\ InBounds(new)
       /\ Get(row, Marker(new)) \in {ERR, "DEL KV-Folder"}
       /\ Included("missing", IsErr(list))
       /\ Start("createFolder", new,
            (IF listed THEN << >>
             ELSE <<PutW(ListCol(p), IF IsEmpty(list) THEN <<new>>
                                     ELSE Append(Split(list), new))>>)
              \o <<PutW(Marker(new), "KV-Folder"), PutW(Metadata(new), <<Blank>>)>>)

\* webStorageDelete: the list without the entries that contain the name, then
\* deleteRec.
DeleteItem ==
  \E p \in folders \cup DOMAIN files :
    LET list == Split(Get(row, ListCol(Parent(p))))
        unlist == PutW(ListCol(Parent(p)),
                       Join(SelectSeq(list, LAMBDA e : ~Mentions(e, Last(p)))))
    IN /\ Included("stale", StaleBelow(row, p) /\ p \in folders)
       /\ Included("substring", \E e \in ToSet(list) :
                                  Mentions(e, Last(p)) /\ Local(e) # Last(p))
       /\ Start("delete", p, <<unlist>> \o DeleteRec(Apply(row, unlist), p))

\* webStorageRenameFile: content and marker, then the entry in the list.
RenameFile ==
  \E f \in DOMAIN files, n \in FileName :
    LET new == Child(Parent(f), <<n>>)
        list == Split(Get(row, ListCol(Parent(f))))
    IN /\ Get(row, Marker(new)) # "KV-File"
       /\ Included("stale", Stale(row, Parent(f)))
       /\ Start("renameFile", f,
            MoveContent(row, f, new)
              \o <<PutW(ListCol(Parent(f)), Replace(list, f, new))>>)

\* webStorageRenameFolder: the entry in the list, then renameFolderRec.
RenameFolder ==
  \E p \in folders, n \in FolderName :
    LET new == Child(Parent(p), <<n>>)
        list == Split(Get(row, ListCol(Parent(p))))
        relist == PutW(ListCol(Parent(p)), Replace(list, p, new))
    IN /\ Get(row, Marker(new)) # "KV-Folder"
       /\ Included("stale", Stale(row, Parent(p)) \/ StaleBelow(row, p))
       /\ Start("renameFolder", p,
            <<relist>> \o RenameFolderRec(Apply(row, relist), p, new))

\* moveFile: content and marker, the list of the target folder, then that of
\* the source folder.
MoveFileTo(r, f, into, new) ==
  LET moved == MoveContent(r, f, new)
      list == Split(Get(Run(r, moved), ListCol(into)))
      listed == moved \o <<PutW(ListCol(into), Append(list, new))>>
  IN listed \o Unlist(Run(r, listed), f)

\* webStorageMoveFile.
MoveFile ==
  \E f \in DOMAIN files, into \in Folder :
    LET new == FreePath(row, Child(into, Last(f)), {"KV-File", "KV-Folder"})
    IN /\ InBounds(new)
       /\ Included("stale", Stale(row, Parent(f)))
       /\ Included("missing", IsErr(Get(row, ListCol(into))))
       /\ Start("moveFile", f, MoveFileTo(row, f, into, new))

\* moveFolder: the folder, the list of its new parent, then that of the old.
MoveFolderTo(r, p, into) ==
  LET new == Child(into, Last(p))
      moved == RenameFolderMoveRec(r, p, new)
      list == Get(Run(r, moved), ListCol(into))
      listed == moved \o <<PutW(ListCol(into),
                                IF IsErr(list) \/ IsEmpty(list) THEN <<new>>
                                ELSE Append(list, new))>>
  IN listed \o Unlist(Run(r, listed), p)

\* webStorageMoveFolder: not into itself, and not where the name is listed
\* already.
MoveFolder ==
  \E p \in folders, into \in Folder :
    LET target == Get(row, ListCol(into))
    IN /\ ~IsPrefix(p, into)
       /\ \A e \in IF IsErr(target) THEN {} ELSE ToSet(target) : Local(e) # Last(p)
       /\ \A q \in FoldersBelow(row, p) \cup {p} : Len(into) + 1 + Len(q) - Len(p) < MaxDepth
       /\ Included("stale", Stale(row, Parent(p)) \/ StaleBelow(row, p))
       /\ Start("moveFolder", p, MoveFolderTo(row, p, into))

\* One write of the request in progress.
Write ==
  /\ ~Idle
  /\ row' = Apply(row, Head(todo))
  /\ todo' = Tail(todo)
  /\ UNCHANGED count
  /\ IF Len(todo) = 1
     THEN /\ req' = Nothing
          /\ files' = VisibleFiles(row')
          /\ folders' = FoldersBelow(row', << >>)
     ELSE UNCHANGED <<req, files, folders>>

Next ==
  \/ Idle /\ \/ ListFolder \/ Upload \/ CreateFolder \/ DeleteItem
             \/ RenameFile \/ RenameFolder \/ MoveFile \/ MoveFolder
  \/ Write

Spec == Init /\ [][Next]_vars

-----------------------------------------------------------------------------
(* Properties.                                                             *)

Whole(d) == [i \in 1..Size[d] |-> <<d, i>>]

Tree ==
  INSTANCE FileTree WITH
    Content <- {Whole(d) : d \in Data},
    Typed <- FileName \cup FolderName

\* What the list and download pages show is a tree, and every request of
\* storage_service.cc does to the whole of it what its name says: no other
\* file or folder appears, disappears or changes, and a taken name is never
\* overwritten.
ImplementsFileTree == Tree!Spec

\* Wherever a request is cut short by the end of its frontend, no chunk of a
\* file it was not asked to delete is lost: moves and renames put a chunk at
\* its new column before they delete the old one (storage_service.cc, the
\* Put/Delete pairs of moveFile and of the two recursive renames).
ContentSurvives ==
  ~Idle =>
    \A f \in DOMAIN files :
      ~(req.kind = "delete" /\ IsPrefix(req.path, f)) =>
        \A x \in ToSet(files[f]) :
          \E c \in DOMAIN row : c[1] = "content" /\ row[c] = x

\* Between requests every stored chunk belongs to a file that is shown:
\* deleteRec reaches all that the deleted folder held, and moves and renames
\* leave nothing at the old path.
NoOrphans ==
  Idle =>
    \A c \in DOMAIN row :
      c[1] = "content" /\ row[c] # ERR =>
        \E f \in DOMAIN files : c[2] \in ToSet(Split(Get(row, Metadata(f))))

\* No item is in the list of its folder twice: one that was would be shown
\* twice, and would leave an entry behind when it is moved or renamed.
ListedOnce ==
  Idle =>
    \A p \in Folder :
      LET l == SelectSeq(Split(Get(row, ListCol(p))), LAMBDA e : e # Blank)
      IN \A i, j \in DOMAIN l : Local(l[i]) = Local(l[j]) => i = j

\* "Recursively rename a folder and all of its contents, handling chunked
\* files" (the comment above renameFolderRec): when a folder has been renamed,
\* its files are in the new folder with the contents they had.
RenameKeepsContents ==
  [][req.kind = "renameFolder" /\ Len(todo) = 1 =>
       \A f \in DOMAIN files : IsPrefix(req.path, f) =>
         \E g \in DOMAIN files' :
           /\ Len(g) = Len(f)
           /\ \A i \in DOMAIN f : i # Len(req.path) => g[i] = f[i]
           /\ files'[g] = files[f]]_vars
=============================================================================
