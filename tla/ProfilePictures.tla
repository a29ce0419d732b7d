-------------------------- MODULE ProfilePictures --------------------------
(***************************************************************************)
(* One account's picture: the name in its row and the files in its         *)
(* directory.  Row changes commit or roll back; file changes happen at     *)
(* once.  Requests for the account overlap: two tabs, a login, the admin.  *)
(***************************************************************************)
EXTENDS Naturals

CONSTANTS Request, Ext,
          Ops,                     \* the kinds of save requests perform
          MaxSuffix, MaxUpload     \* bounds: names per extension, uploads

ASSUME BoundsAssumption == MaxSuffix \in Nat /\ MaxUpload \in Nat

VARIABLES picture,    \* the committed profile_picture column
          files,      \* what each file holds
          req,        \* requests in flight
          uploads     \* uploads so far

vars == <<picture, files, req, uploads>>

NoFile   == <<>>
File     == Ext \X (0..MaxSuffix)
FileOrNone == File \cup {NoFile}
None     == 0                       \* no such file
Content  == 0..MaxUpload

(* "touch" saves other columns only: last_login at login, suspend, unsuspend. *)
Idle == [phase |-> "idle"]
Active == [phase : {"loaded", "cleared", "swept", "stored"}, op : Ops,
           name : FileOrNone, ext : Ext, upload : Content,
           alone : BOOLEAN]         \* nothing overlapped with it (ghost)

TypeOK ==
  /\ picture \in FileOrNone
  /\ files \in [File -> Content]
  /\ req \in [Request -> {Idle} \cup Active]
  /\ uploads \in 0..MaxUpload

Init ==
  /\ picture = NoFile
  /\ files = [f \in File |-> None]
  /\ req = [r \in Request |-> Idle]
  /\ uploads = 0

---------------------------------------------------------------------------
Exists(f)  == files[f] # None
Dangles(f) == f # NoFile /\ ~Exists(f)

(* clean_profile_picture looks at the current file unless one is uploaded;   *)
(* a missing file fails the request.                                         *)
FormOpens(op) == ~(op \in {"edit", "clear"} /\ Dangles(picture))

Load(r, op, ext) ==
  LET alone == \A s \in Request \ {r} : req[s] = Idle
      new   == IF op = "upload" THEN uploads + 1 ELSE uploads
      Overlapped(q) == IF q = Idle THEN q ELSE [q EXCEPT !.alone = FALSE]
  IN /\ req[r] = Idle
     /\ new <= MaxUpload
     /\ FormOpens(op)
     /\ uploads' = new
     /\ req' = [s \in Request |->
          IF s = r THEN [phase |-> IF op = "clear" THEN "loaded" ELSE "cleared",
                         op |-> op, name |-> picture, ext |-> ext,
                         upload |-> IF op = "upload" THEN new ELSE None,
                         alone |-> alone]
          ELSE Overlapped(req[s])]
     /\ UNCHANGED <<picture, files>>

Without(f) == IF f = NoFile THEN files ELSE [files EXCEPT ![f] = None]

(* ProfileForm.save deletes the file its instance names, and the name.       *)
ClearedName == NoFile

ClearPicture(r) ==
  /\ req[r].phase = "loaded"
  /\ files' = Without(req[r].name)
  /\ req' = [req EXCEPT ![r].phase = "cleared", ![r].name = ClearedName]
  /\ UNCHANGED <<picture, uploads>>

(* User.save reads the row again: a name other than the instance's goes. An  *)
(* upload still has its own name, so it always counts as another.            *)
SweepsAnyOld(q) == TRUE          \* mutant: models.py:134, no comparison
Sweeps(q) == q.op = "upload" \/ picture # q.name

RemoveOldFile(r) ==
  /\ req[r].phase = "cleared"
  /\ files' = IF Sweeps(req[r]) THEN Without(picture) ELSE files
  /\ req' = [req EXCEPT ![r].phase = IF req[r].op = "upload" THEN "swept"
                                     ELSE "stored"]
  /\ UNCHANGED <<picture, uploads>>

(* The upload path, or a free variant of it: a file is never overwritten.    *)
AvailableNames(ext) ==
  IF ~Exists(<<ext, 0>>) THEN {<<ext, 0>>}
  ELSE {f \in {ext} \X (1..MaxSuffix) : ~Exists(f)}

StoreUpload(r) ==
  /\ req[r].phase = "swept"
  /\ \E f \in AvailableNames(req[r].ext) :
       /\ files' = [files EXCEPT ![f] = req[r].upload]
       /\ req' = [req EXCEPT ![r].phase = "stored", ![r].name = f]
  /\ UNCHANGED <<picture, uploads>>

(* UPDATE and COMMIT; the resize in between keeps the name and the picture.  *)
SavedOldName(q) == picture       \* mutant: the column left out of the save
SavedSentName(q) == <<q.ext>>    \* mutant: the name the file was sent with
SavedName(q) == IF q.op = "touch" THEN picture ELSE q.name

Commit(r) ==
  /\ req[r].phase = "stored"
  /\ picture' = SavedName(req[r])
  /\ req' = [req EXCEPT ![r] = Idle]
  /\ UNCHANGED <<files, uploads>>

(* A refused row, an error or a dead worker: the files stay as they are.     *)
Rollback(r) ==
  /\ req[r] # Idle
  /\ req' = [req EXCEPT ![r] = Idle]
  /\ UNCHANGED <<picture, files, uploads>>

Next == \E r \in Request :
  \/ \E op \in Ops, ext \in Ext : Load(r, op, ext)
  \/ ClearPicture(r) \/ RemoveOldFile(r) \/ StoreUpload(r)
  \/ Commit(r) \/ Rollback(r)

Spec == Init /\ [][Next]_vars

---------------------------------------------------------------------------
(* Properties *)

(* Whatever overlapping saves and rollbacks did before, an upload that runs  *)
(* alone leaves its own picture in place (models.py:130-140).                *)
LoneUploadShows ==
  [][\A r \in Request :
       Commit(r) /\ req[r].op = "upload" /\ req[r].alone
         => picture' # NoFile /\ files'[picture'] = req[r].upload]_vars

(* A save that runs alone never makes the row name a missing file: it keeps  *)
(* the file it found, or clears name and file together (forms.py:100-104).   *)
LoneSaveKeepsFile ==
  [][\A r \in Request :
       Commit(r) /\ req[r].op \in {"edit", "clear"} /\ req[r].alone
         => picture' = NoFile \/ files'[picture'] # None]_vars
=============================================================================
