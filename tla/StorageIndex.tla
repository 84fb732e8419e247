------------------------------ MODULE StorageIndex ------------------------------
(***************************************************************************)
(* The files of the users in blob storage and the table users_storage_cache *)
(* that repeats them: StorageModule, its Azure provider and the queries of  *)
(* content.indexing.                                                        *)
(*                                                                          *)
(* Blob storage and the database know nothing of each other.  An operation  *)
(* changes the blobs, then the rows, then scans everything the user has     *)
(* (reindex); an action is one request to either side with the Python code  *)
(* up to the next, so operations and scans interleave.                      *)
(***************************************************************************)
EXTENDS Integers, Sequences, SequencesExt

CONSTANTS
  Callers,       \* coroutines running an operation or a scan
  Users,         \* owners of blobs
  Accounts,      \* the users auth.user_exists knows
  NameList,      \* relative names, as sequences of segments, sorted as list_blobs sorts them
  Batches,       \* sequences of names uploaded or deleted in one call
  FileMoves,     \* pairs of names a file is moved from and to
  Renames,       \* pairs of names a file or folder is renamed from and to
  Folders,       \* names of folders created and deleted
  Stores,        \* files, folders and gallery there may be to begin with
  Placeholder,   \* the segment ".init"
  TextPrefixes,  \* pairs of segments, the text of the first of which begins that of the second
  MaxCalls,      \* bound: operations and scans begun
  MaxFlags,      \* bound: times a gallery flag or a report is set
  MaxErrors      \* bound: requests that fail

Names == Range(NameList)
Files == UNION {Range(batch) : batch \in Batches}

\* The name a blob has after the folder old, or the blob itself, is renamed.
Renamed(n, old, new) == new \o SubSeq(n, Len(old) + 1, Len(n))

ASSUME StorageAssumption ==
  /\ IsFiniteSet(Users) /\ Accounts \subseteq Users
  /\ NameList \in Seq(Names) /\ \A n \in Names : n \in Seq(Range(n))
  /\ \A batch \in Batches : batch \in Seq(Files)
  /\ Files \cup Folders \cup {Append(folder, Placeholder) : folder \in Folders} \subseteq Names
  /\ FileMoves \cup Renames \subseteq Names \X Names
  /\ \A r \in Renames, n \in Names : IsPrefix(r[1], n) => Renamed(n, r[1], r[2]) \in Names
  /\ \A st \in Stores : st.gallery \subseteq st.files /\ st.files \cup st.folders \subseteq Names
  /\ MaxCalls \in Nat /\ MaxFlags \in Nat /\ MaxErrors \in Nat

VARIABLES
  blob,          \* blob storage: what each user has under each name
  rows,          \* users_storage_cache
  pc, cur,       \* where each caller is and what it knows
  wish,          \* history: the gallery flag the owner last asked for
  fresh,         \* history: an undisturbed scan has come last
  dirty,         \* history: files or rows changed since the caller's scan listed the blobs
  disturbed,     \* history: calls for the user overlapped, one was refused or failed, or a
                 \* placeholder was renamed to a file
  begun, flags, faults

history == <<wish, fresh, dirty, disturbed>>
counters == <<begun, flags, faults>>
storageVars == <<blob, rows, pc, cur, history, counters>>

-----------------------------------------------------------------------------
(* Sequences *)

\* The elements of s that are in T, in their order.
Only(s, T) ==
  LET upTo[i \in 0 .. Len(s)] == IF i = 0 THEN <<>>
                                 ELSE IF s[i] \in T THEN Append(upTo[i - 1], s[i]) ELSE upTo[i - 1]
  IN upTo[Len(s)]

\* The sequences of seqs one after the other, without what an earlier one has.
OneAfterOther(seqs) ==
  LET upTo[i \in 0 .. Len(seqs)] ==
        IF i = 0 THEN <<>> ELSE upTo[i - 1] \o Only(seqs[i], Range(seqs[i]) \ Range(upTo[i - 1]))
  IN upTo[Len(seqs)]

-----------------------------------------------------------------------------
(* Names, blobs and rows *)

Inside(n, folder) == IsStrictPrefix(folder, n)

\* Names that no other name is inside: theirs are never the names of folders.
Innermost == {n \in Names : ~\E m \in Names : Inside(m, n)}

\* name_starts_with compares text: "docs" is listed with "doc".
StartsWith(n, folder) ==
  \/ IsPrefix(folder, n)
  \/ /\ Len(n) >= Len(folder)
     /\ \A i \in 1 .. Len(folder) - 1 : n[i] = folder[i]
     /\ <<folder[Len(folder)], n[Len(folder)]>> \in TextPrefixes

InitOf(folder) == Append(folder, Placeholder)

Kinds == {"none", "file", "folder"}

IndexRow == [kind : Kinds, public : BOOLEAN, reported : BOOLEAN]
NoRow == [kind |-> "none", public |-> FALSE, reported |-> FALSE]
FileRow(public) == [kind |-> "file", public |-> public, reported |-> FALSE]
FolderRow == [kind |-> "folder", public |-> FALSE, reported |-> FALSE]

\* A statement still to run on the rows of a user: upsert_v1, delete_v1 and
\* delete_folder_v1.
Upsert(u, n, row) == [do |-> "upsert", user |-> u, name |-> n, row |-> row]
Delete(u, n) == [do |-> "delete", user |-> u, name |-> n, row |-> NoRow]
DeleteFolder(u, n) == [do |-> "delete folder", user |-> u, name |-> n, row |-> NoRow]

UpsertRows(rs, w) == [rs EXCEPT ![w.name] = w.row]
DeleteRows(rs, w) == [rs EXCEPT ![w.name] = NoRow]
DeleteFolderRows(rs, w) == [n \in Names |-> IF IsPrefix(w.name, n) THEN NoRow ELSE rs[n]]

Written(rs, w) == CASE w.do = "upsert" -> UpsertRows(rs, w)
                    [] w.do = "delete" -> DeleteRows(rs, w)
                    [] w.do = "delete folder" -> DeleteFolderRows(rs, w)

\* list_v1 does not select element_reported.
Listed(rs) == [n \in Names |-> [rs[n] EXCEPT !.reported = FALSE]]

Blobs(u) == Only(NameList, {n \in Names : blob[u][n] # "none"})

-----------------------------------------------------------------------------
(* What a caller knows: the user and names of its call, the blobs still to be *)
(* handled, the statements to run, the rows rename_file has listed; of a scan, *)
(* whether it is for one user, the blobs it has listed, the users it has not   *)
(* come to, the rows it will remove, and the users it has seen a blob of.      *)

Nothing == [op |-> "none", user |-> "none", from |-> <<>>, to |-> <<>>, work |-> <<>>, todo |-> <<>>,
            rows |-> <<>>, one |-> TRUE, found |-> <<>>, left |-> <<>>, stale |-> <<>>, seen |-> {}]

Busy(u) == {c \in Callers : pc[c] # "idle" /\ (cur[c].user = u \/ ~cur[c].one)}

StartsCall(c, op, scope) ==
  /\ pc[c] = "idle"
  /\ begun < MaxCalls
  /\ begun' = begun + 1
  /\ disturbed' = [u \in Users |-> disturbed[u] \/ (u \in scope /\ Busy(u) # {})]
  /\ UNCHANGED <<flags, faults, wish, fresh, dirty>>

AtStep(c, step) == pc[c] = step /\ UNCHANGED counters

Fails(c, step) == /\ pc[c] = step
                  /\ faults < MaxErrors
                  /\ faults' = faults + 1
                  /\ UNCHANGED <<begun, flags>>

Goes(c, step, k) == /\ pc' = [pc EXCEPT ![c] = step]
                    /\ cur' = [cur EXCEPT ![c] = k]

Ends(c) == Goes(c, "idle", Nothing)

\* Callers whose scan has listed the blobs.
Reading == {x \in Callers : pc[x] \in {"account", "cache", "scan"}}

\* The files or rows of u have changed: scans under way have listed another state.
Changes(c, u) ==
  /\ fresh' = [fresh EXCEPT ![u] = FALSE]
  /\ dirty' = [x \in Callers |-> dirty[x] \/ x \in Reading \ {c}]

\* Something went wrong for u, or was refused.
Disturbs(u) == UNCHANGED <<wish, fresh, dirty>> /\ disturbed' = [disturbed EXCEPT ![u] = TRUE]

\* The operation goes on with its statements, and after the last with the scan.
GoesToRows(c, k) == Goes(c, IF k.todo = <<>> THEN "user" ELSE "rows",
                         [Nothing EXCEPT !.user = k.user, !.todo = k.todo])

\* The provider goes on with the next name; more is where that one is handled.
GoesToWork(c, more, k) == IF k.work = <<>> THEN GoesToRows(c, k) ELSE Goes(c, more, k)

-----------------------------------------------------------------------------
(* upload_files, delete_files and delete_folder: one blob after the other *)

Upload(c, u, files) ==
  /\ StartsCall(c, "upload", {u})
  /\ GoesToWork(c, "put", [Nothing EXCEPT !.op = "upload", !.user = u, !.work = files])
  /\ UNCHANGED <<blob, rows>>

PutBlob(c) ==
  LET k == cur[c]
      n == Head(k.work)
  IN /\ AtStep(c, "put")
     /\ blob' = [blob EXCEPT ![k.user][n] = "file"]
     /\ wish' = [wish EXCEPT ![k.user][n] = FALSE]
     /\ Changes(c, k.user)
     /\ GoesToWork(c, "put", [k EXCEPT !.work = Tail(k.work),
                                       !.todo = Append(k.todo, Upsert(k.user, n, FileRow(FALSE)))])
     /\ UNCHANGED <<rows, disturbed>>

DeleteFiles(c, u, files) ==
  /\ StartsCall(c, "delete", {u})
  /\ GoesToWork(c, "delete", [Nothing EXCEPT !.op = "delete", !.user = u, !.work = files])
  /\ UNCHANGED <<blob, rows>>

DeleteFolderCall(c, u, folder) ==
  /\ StartsCall(c, "delete folder", {u})
  /\ LET k == [Nothing EXCEPT !.op = "delete folder", !.user = u,
                              !.work = Only(Blobs(u), {n \in Names : StartsWith(n, folder)}),
                              !.to = folder]
     IN IF k.work = <<>>
        THEN GoesToRows(c, [k EXCEPT !.todo = <<DeleteFolder(u, folder)>>])
        ELSE Goes(c, "delete", k)
  /\ UNCHANGED <<blob, rows>>

\* delete_blob raises if there is no such blob; the name is then left out.
AfterDelete(k, deleted) ==
  LET todo == IF deleted THEN Append(k.todo, Delete(k.user, Head(k.work))) ELSE k.todo
  IN [k EXCEPT !.work = Tail(k.work),
               !.todo = IF Len(k.work) = 1 /\ k.op = "delete folder"
                        THEN Append(todo, DeleteFolder(k.user, k.to)) ELSE todo]

DeleteBlob(c) ==
  LET k == cur[c]
      n == Head(k.work)
      there == blob[k.user][n] # "none"
  IN /\ AtStep(c, "delete")
     /\ blob' = [blob EXCEPT ![k.user][n] = "none"]
     /\ wish' = [wish EXCEPT ![k.user][n] = FALSE]
     /\ IF there THEN Changes(c, k.user) ELSE UNCHANGED <<fresh, dirty>>
     /\ GoesToWork(c, "delete", AfterDelete(k, there))
     /\ UNCHANGED <<rows, disturbed>>

\* The provider logs the error and goes on with the next blob.
BlobFails(c) ==
  /\ \/ /\ Fails(c, "put")
        /\ GoesToWork(c, "put", [cur[c] EXCEPT !.work = Tail(@)])
     \/ /\ Fails(c, "delete")
        /\ GoesToWork(c, "delete", AfterDelete(cur[c], FALSE))
  /\ Disturbs(cur[c].user)
  /\ UNCHANGED <<blob, rows>>

-----------------------------------------------------------------------------
(* create_folder: the folder's own blob and the placeholder in it *)

CreateFolder(c, u, folder) ==
  /\ StartsCall(c, "create", {u})
  /\ Goes(c, "folder", [Nothing EXCEPT !.op = "create", !.user = u, !.work = <<folder, InitOf(folder)>>])
  /\ UNCHANGED <<blob, rows>>

PutFolder(c) ==
  LET k == cur[c]
      n == Head(k.work)
  IN /\ AtStep(c, "folder")
     /\ blob' = [blob EXCEPT ![k.user][n] = IF Len(k.work) = 2 THEN "folder" ELSE "file"]
     /\ Changes(c, k.user)
     /\ GoesToWork(c, "folder",
          [k EXCEPT !.work = Tail(k.work),
                    !.todo = IF Len(k.work) = 2 THEN <<Upsert(k.user, n, FolderRow)>> ELSE k.todo])
     /\ UNCHANGED <<rows, wish, disturbed>>

\* create_folder and move_file return at once, without a scan.
EndsAtOnce(c) ==
  /\ \/ Fails(c, "folder")
     \/ Fails(c, "copy") /\ cur[c].op = "move"
     \/ Fails(c, "unlink") /\ cur[c].op = "move"
     \/ /\ AtStep(c, "copy") \/ AtStep(c, "unlink")
        /\ cur[c].op = "move"
        /\ blob[cur[c].user][Head(cur[c].work)] = "none"
  /\ Ends(c)
  /\ Disturbs(cur[c].user)
  /\ UNCHANGED <<blob, rows>>

-----------------------------------------------------------------------------
(* move_file and rename_file *)

Move(c, u, src, dst) ==
  /\ StartsCall(c, "move", {u})
  /\ Goes(c, "copy", [Nothing EXCEPT !.op = "move", !.user = u, !.work = <<src>>, !.from = src, !.to = dst])
  /\ UNCHANGED <<blob, rows>>

Rename(c, u, old, new) ==
  /\ old # new
  /\ StartsCall(c, "rename", {u})
  /\ Goes(c, "look up", [Nothing EXCEPT !.op = "rename", !.user = u, !.work = <<old>>,
                                        !.from = old, !.to = new])
  /\ UNCHANGED <<blob, rows>>

\* A name is taken for a folder if the index has it as one or has rows inside it.
LookUp(c) ==
  LET k == cur[c]
      listed == Listed(rows[k.user])
      isFolder == \/ listed[k.from].kind = "folder"
                  \/ \E n \in Names : Inside(n, k.from) /\ listed[n].kind # "none"
  IN /\ AtStep(c, "look up")
     /\ Goes(c, IF isFolder THEN "target" ELSE "rename",
             [k EXCEPT !.rows = listed, !.op = IF isFolder THEN "rename folder" ELSE "rename"])
     /\ UNCHANGED <<blob, rows, history>>

\* _update_cache_entry.  The properties of a blob always have a content type, and
\* never that of a folder; without them the listed entry keeps its own.
EntryMoved(k, n, properties) ==
  LET entry == k.rows[n]
      new == Renamed(n, k.from, k.to)
  IN <<Delete(k.user, n)>> \o
     IF entry.kind = "none" THEN <<>>
     ELSE <<Upsert(k.user, new, [entry EXCEPT !.kind = IF properties THEN "file" ELSE entry.kind])>>

\* The listed entries of the folder that no operation of the provider stands for.
EntriesLeft(k) ==
  LET processed == {w.name : w \in {x \in Range(k.todo) : x.do = "delete"}}
      left == Only(NameList, {n \in Names \ processed : IsPrefix(k.from, n) /\ k.rows[n].kind # "none"})
  IN OneAfterOther([i \in 1 .. Len(left) |-> EntryMoved(k, left[i], FALSE)])

\* The provider has no more names to rename: the entries of a folder follow, also
\* those of blobs it could not rename.
RenameGoesOn(c, k) ==
  IF k.work # <<>> THEN Goes(c, "rename", k)
  ELSE GoesToRows(c, [k EXCEPT !.todo = IF k.op = "rename folder" THEN @ \o EntriesLeft(k) ELSE @])

\* rename_folder refuses a target inside the folder and one that exists; these
\* requests only read.
TargetTaken(u, old, new) ==
  \/ Inside(new, old)
  \/ \E n \in Names : IsPrefix(new, n) /\ blob[u][n] # "none"

CheckTarget(c) ==
  LET k == cur[c]
  IN /\ AtStep(c, "target")
     /\ IF TargetTaken(k.user, k.from, k.to)
        THEN RenameGoesOn(c, [k EXCEPT !.work = <<>>]) /\ Disturbs(k.user)
        ELSE Goes(c, "rename", k) /\ UNCHANGED history
     /\ UNCHANGED <<blob, rows>>

\* The blobs inside the folder are listed when the folder's own has been handled.
NextName(k) ==
  [k EXCEPT !.work = IF Head(k.work) = k.from /\ k.op = "rename folder"
                     THEN Only(Blobs(k.user), {n \in Names : Inside(n, k.from)})
                     ELSE Tail(k.work)]

\* rename_single up to the copy.
RenameCheck(c) ==
  LET k == cur[c]
      n == Head(k.work)
      new == Renamed(n, k.from, k.to)
  IN /\ AtStep(c, "rename")
     /\ IF blob[k.user][n] = "none"
        THEN RenameGoesOn(c, NextName([k EXCEPT !.todo = @ \o EntryMoved(k, n, FALSE)]))
        ELSE IF blob[k.user][new] # "none"
        THEN RenameGoesOn(c, NextName(k))
        ELSE Goes(c, "copy", k)
     /\ UNCHANGED <<blob, rows, history>>

CopyBlob(c) ==
  LET k == cur[c]
      n == Head(k.work)
  IN /\ AtStep(c, "copy")
     /\ blob[k.user][n] # "none"
     /\ LET new == Renamed(n, k.from, k.to)
        IN blob' = [blob EXCEPT ![k.user][new] = blob[k.user][n]]
     /\ Changes(c, k.user)
     /\ Goes(c, "unlink", k)
     /\ UNCHANGED <<rows, wish, disturbed>>

\* A rename carries the flag over; a moved file is not in the gallery.
UnlinkBlob(c) ==
  LET k == cur[c]
      n == Head(k.work)
      new == Renamed(n, k.from, k.to)
      isMove == k.op = "move"
  IN /\ AtStep(c, "unlink")
     /\ blob[k.user][n] # "none"
     /\ blob' = [blob EXCEPT ![k.user][n] = "none"]
     /\ wish' = [wish EXCEPT ![k.user] = [@ EXCEPT ![n] = FALSE, ![new] = ~isMove /\ wish[k.user][n]]]
     /\ Changes(c, k.user)
     /\ IF isMove
        THEN GoesToRows(c, [k EXCEPT !.work = <<>>,
               !.todo = <<Delete(k.user, n), Upsert(k.user, new, FileRow(FALSE))>>])
        ELSE RenameGoesOn(c, NextName([k EXCEPT !.todo = @ \o EntryMoved(k, n, TRUE)]))
     /\ disturbed' = [disturbed EXCEPT ![k.user] =
          @ \/ (~isMove /\ Last(n) = Placeholder /\ Last(new) # Placeholder)]
     /\ UNCHANGED rows

\* rename_single notes the error, also if the source has gone.
RenameFails(c) ==
  /\ cur[c].op \in {"rename", "rename folder"}
  /\ \/ Fails(c, "rename")
     \/ Fails(c, "copy")
     \/ Fails(c, "unlink")
     \/ /\ AtStep(c, "copy") \/ AtStep(c, "unlink")
        /\ blob[cur[c].user][Head(cur[c].work)] = "none"
  /\ RenameGoesOn(c, NextName(cur[c]))
  /\ Disturbs(cur[c].user)
  /\ UNCHANGED <<blob, rows>>

-----------------------------------------------------------------------------
(* The rows of an operation *)

\* An error is logged and the next row is written all the same.
WriteRow(c) ==
  LET k == cur[c]
      w == Head(k.todo)
  IN /\ AtStep(c, "rows")
     /\ rows' = [rows EXCEPT ![k.user] = Written(@, w)]
     /\ Changes(c, k.user)
     /\ GoesToRows(c, [k EXCEPT !.todo = Tail(@)])
     /\ UNCHANGED <<blob, wish, disturbed>>

RowFails(c) ==
  /\ Fails(c, "rows")
  /\ GoesToRows(c, [cur[c] EXCEPT !.todo = Tail(@)])
  /\ Disturbs(cur[c].user)
  /\ UNCHANGED <<blob, rows>>

-----------------------------------------------------------------------------
(* reindex, after an operation and by the batch job *)

ScanUser(c, u) ==
  /\ StartsCall(c, "scan", {u})
  /\ Goes(c, "user", [Nothing EXCEPT !.user = u])
  /\ UNCHANGED <<blob, rows>>

ScanAll(c) ==
  /\ StartsCall(c, "scan", Users)
  /\ Goes(c, "list", [Nothing EXCEPT !.one = FALSE])
  /\ UNCHANGED <<blob, rows>>

CheckUser(c) ==
  /\ AtStep(c, "user")
  /\ IF cur[c].user \in Accounts THEN Goes(c, "list", cur[c])
     ELSE Ends(c)
  /\ UNCHANGED <<blob, rows, history>>

\* The users come one after the other, as their blobs do.
ListBlobs(c) ==
  LET k == cur[c]
      scope == {u \in Users : (k.one => u = k.user) /\ Blobs(u) # <<>>}
      found == [u \in scope |-> [i \in DOMAIN Blobs(u) |->
                  [name |-> Blobs(u)[i], kind |-> blob[u][Blobs(u)[i]]]]]
  IN /\ AtStep(c, "list")
     /\ IF scope = {} THEN Ends(c)
        ELSE Goes(c, IF k.one THEN "cache" ELSE "account",
                  [k EXCEPT !.found = found, !.left = SetToSeq(scope)])
     /\ dirty' = [dirty EXCEPT ![c] = FALSE]
     /\ UNCHANGED <<blob, rows, wish, fresh, disturbed>>

\* The scan goes on with its statements, then with the next user; the rows it has
\* found without a blob are removed last of all.
ScanGoesOn(c, k) ==
  LET j == IF k.left = <<>> THEN [k EXCEPT !.todo = @ \o k.stale, !.stale = <<>>] ELSE k
  IN IF j.todo # <<>> THEN Goes(c, "scan", j)
     ELSE IF j.left # <<>> THEN Goes(c, "account", j)
     ELSE Ends(c)

\* A scan that ends undisturbed vouches for the users it has seen; a scan that is
\* still writing spoils what an earlier one vouched for.
Vouched(c, k, writes) ==
  LET ends == k.todo = <<>> /\ k.left = <<>> /\ k.stale = <<>> /\ ~dirty[c]
  IN [u \in Users |-> (ends /\ u \in k.seen) \/ (fresh[u] /\ u \notin writes)]

\* ensure_user, which takes an error for an unknown user.
SkipUser(c) ==
  LET k == [cur[c] EXCEPT !.left = Tail(@)]
  IN ScanGoesOn(c, k) /\ fresh' = Vouched(c, k, {})

CheckAccount(c) ==
  /\ AtStep(c, "account")
  /\ IF Head(cur[c].left) \in Accounts THEN Goes(c, "cache", cur[c]) /\ UNCHANGED fresh ELSE SkipUser(c)
  /\ UNCHANGED <<blob, rows, wish, dirty, disturbed>>

CheckFails(c) ==
  /\ \/ Fails(c, "user") /\ Ends(c) /\ UNCHANGED fresh
     \/ Fails(c, "account") /\ SkipUser(c)
  /\ disturbed' = [u \in Users |-> disturbed[u] \/ (cur[c].one => u = cur[c].user)]
  /\ UNCHANGED <<blob, rows, wish, dirty>>

\* Mutants of WritesFor: the placeholder of a folder is indexed as a file; the
\* gallery flag is not looked up.
WritesForPlaceholders(u, b, public) ==
  IF b.kind = "folder" THEN <<Upsert(u, b.name, FolderRow)>>
  ELSE <<Upsert(u, b.name, FileRow(b.name \in public))>>

WritesForUnflagged(u, b, public) ==
  IF b.kind = "folder" THEN <<Upsert(u, b.name, FolderRow)>>
  ELSE IF Last(b.name) = Placeholder THEN <<>>
  ELSE <<Upsert(u, b.name, FileRow(FALSE))>>

\* What is written for a blob: the four outermost folders it is in, then itself.
\* The flag is the one listed; a report is not asked for.
WritesFor(u, b, public) ==
  LET depth == IF Len(b.name) - 1 < 4 THEN Len(b.name) - 1 ELSE 4
      around == [i \in 1 .. depth |-> Upsert(u, SubSeq(b.name, 1, i), FolderRow)]
      itself == IF b.kind = "folder" THEN <<Upsert(u, b.name, FolderRow)>>
                ELSE IF Last(b.name) = Placeholder THEN <<>>
                ELSE <<Upsert(u, b.name, FileRow(b.name \in public))>>
  IN around \o itself

\* Each folder is written once, when it is first met.
ScanWrites(u, found, public) ==
  OneAfterOther([i \in 1 .. Len(found) |-> WritesFor(u, found[i], public)])

ReadRows(c) ==
  LET u == Head(cur[c].left)
      found == cur[c].found[u]
      indexed == {n \in Names : rows[u][n].kind = "file"}
      public == {n \in indexed : rows[u][n].public}
      files == {found[i].name : i \in {j \in DOMAIN found : /\ found[j].kind = "file"
                                                            /\ Last(found[j].name) # Placeholder}}
      stale == Only(NameList, indexed \ files)
      removes == cur[c].one \/ files # {}
      k == [cur[c] EXCEPT !.left = Tail(@),
                          !.found = [@ EXCEPT ![u] = <<>>],
                          !.todo = ScanWrites(u, found, public),
                          !.stale = @ \o IF removes THEN [i \in DOMAIN stale |-> Delete(u, stale[i])] ELSE <<>>,
                          !.seen = @ \cup IF removes THEN {u} ELSE {}]
  IN /\ AtStep(c, "cache")
     /\ ScanGoesOn(c, k)
     /\ fresh' = Vouched(c, k, {})
     /\ UNCHANGED <<blob, rows, wish, dirty, disturbed>>

ScanWrite(c) ==
  LET w == Head(cur[c].todo)
      k == [cur[c] EXCEPT !.todo = Tail(@)]
  IN /\ AtStep(c, "scan")
     /\ rows' = [rows EXCEPT ![w.user] = Written(@, w)]
     /\ ScanGoesOn(c, k)
     /\ fresh' = Vouched(c, k, {w.user})
     /\ dirty' = [x \in Callers |-> dirty[x] \/ x \in Reading \ {c}]
     /\ UNCHANGED <<blob, wish, disturbed>>

\* What raises in the scan raises through the operation.
ScanFails(c) ==
  /\ \E step \in {"list", "cache", "scan"} : Fails(c, step)
  /\ Ends(c)
  /\ disturbed' = [u \in Users |-> disturbed[u] \/ (cur[c].one => u = cur[c].user)]
  /\ UNCHANGED <<blob, rows, wish, fresh, dirty>>

-----------------------------------------------------------------------------
(* set_gallery and report_file: one statement each *)

Flags(u) ==
  /\ flags < MaxFlags
  /\ flags' = flags + 1
  /\ disturbed' = [disturbed EXCEPT ![u] = @ \/ Busy(u) # {}]
  /\ UNCHANGED <<blob, pc, cur, fresh, dirty, begun, faults>>

SetGallery(u, n, gallery) ==
  /\ Flags(u)
  /\ rows[u][n].kind # "none"
  /\ rows' = [rows EXCEPT ![u][n].public = gallery]
  /\ wish' = [wish EXCEPT ![u][n] = gallery]

Report(u, n) ==
  /\ Flags(u)
  /\ rows[u][n].kind # "none"
  /\ rows' = [rows EXCEPT ![u][n].reported = TRUE]
  /\ UNCHANGED wish

-----------------------------------------------------------------------------
(* The program *)

\* Operations that have ended have left files, some of them in the gallery, and
\* folders, all of them indexed; a user whose account is gone has left files.
Around(names) == {f \in Names : \E n \in names : Inside(n, f)}

Stored(files, folders) ==
  [n \in Names |-> IF n \in files \/ n \in {InitOf(f) : f \in folders} THEN "file"
                   ELSE IF n \in folders THEN "folder" ELSE "none"]

Indexed(st) ==
  [n \in Names |-> IF n \in st.files THEN FileRow(n \in st.gallery)
                   ELSE IF n \in st.folders \cup Around(st.files) THEN FolderRow ELSE NoRow]

StorageInit ==
  /\ \E st \in Stores :
       /\ blob = [u \in Users |-> IF u \in Accounts THEN Stored(st.files, st.folders) ELSE Stored(Files, {})]
       /\ rows = [u \in Users |-> IF u \in Accounts THEN Indexed(st) ELSE [n \in Names |-> NoRow]]
       /\ wish = [u \in Users |-> [n \in Names |-> u \in Accounts /\ n \in st.gallery]]
  /\ pc = [c \in Callers |-> "idle"]
  /\ cur = [c \in Callers |-> Nothing]
  /\ fresh = [u \in Users |-> FALSE]
  /\ dirty = [c \in Callers |-> FALSE]
  /\ disturbed = [u \in Users |-> FALSE]
  /\ begun = 0 /\ flags = 0 /\ faults = 0

FileCalls(c, u) ==
  \/ \E batch \in Batches : Upload(c, u, batch) \/ DeleteFiles(c, u, batch)
  \/ \E folder \in Folders : CreateFolder(c, u, folder) \/ DeleteFolderCall(c, u, folder)
  \/ \E names \in FileMoves : Move(c, u, names[1], names[2])
  \/ \E names \in Renames : Rename(c, u, names[1], names[2])
  \/ ScanUser(c, u)

Steps(c) ==
  \/ PutBlob(c) \/ DeleteBlob(c) \/ BlobFails(c) \/ PutFolder(c) \/ EndsAtOnce(c)
  \/ LookUp(c) \/ CheckTarget(c) \/ RenameCheck(c) \/ CopyBlob(c) \/ UnlinkBlob(c) \/ RenameFails(c)
  \/ WriteRow(c) \/ RowFails(c)
  \/ CheckUser(c) \/ ListBlobs(c) \/ CheckAccount(c) \/ CheckFails(c)
  \/ ReadRows(c) \/ ScanWrite(c) \/ ScanFails(c)

StorageNext ==
  \/ \E c \in Callers : ScanAll(c) \/ Steps(c) \/ \E u \in Accounts : FileCalls(c, u)
  \/ \E u \in Accounts, n \in Files : Report(u, n) \/ \E gallery \in BOOLEAN : SetGallery(u, n, gallery)

StorageSpec == StorageInit /\ [][StorageNext]_storageVars

-----------------------------------------------------------------------------
(* Properties *)

IsFile(u, n) == blob[u][n] = "file" /\ Last(n) # Placeholder

\* Other blobs are inside the name.
IsFolder(u, n) == \E m \in Names : Inside(m, n) /\ blob[u][m] # "none"

\* Rows and blobs are what the tables and the storage can hold, and rows are only
\* kept for users who have an account.
IndexTypeOK ==
  /\ blob \in [Users -> [Names -> Kinds]]
  /\ rows \in [Users -> [Names -> IndexRow]]
  /\ \A u \in Users \ Accounts, n \in Names : rows[u][n] = NoRow

\* A scan repairs the index.  Whatever operations overlapped or failed before,
\* once a scan that no other call disturbed has ended, nothing but files is indexed as
\* a file, and the files of every user it has seen are indexed: as files, unless their
\* name is also that of a folder other blobs are in (reindex, its upserts and its
\* removal of stale rows).
ScanRepairs ==
  \A u \in Users : fresh[u] => \A n \in Names :
    /\ rows[u][n].kind = "file" => IsFile(u, n)
    /\ IsFile(u, n) => rows[u][n].kind # "none"
    /\ IsFile(u, n) /\ ~IsFolder(u, n) => rows[u][n].kind = "file"

\* The index is sound: rows are well formed and kept only for users with an account,
\* and scans repair what overlapping and failing calls have left (reindex).
IndexIsSound == IndexTypeOK /\ ScanRepairs

\* The gallery flag a user has set stays with the file through uploads of other
\* files, renames of it or of its folder, and scans, as long as the calls for the
\* user come one after the other, none is refused or fails and no placeholder is
\* renamed to a file.  A file whose name can also be a folder's shares that row.
GalleryIsKept ==
  \A u \in Accounts : Busy(u) = {} /\ ~disturbed[u] =>
    \A n \in Innermost : IsFile(u, n) => rows[u][n].public = wish[u][n]

=============================================================================
