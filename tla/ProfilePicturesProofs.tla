----------------------- MODULE ProfilePicturesProofs -----------------------
(***************************************************************************)
(* One account's picture, for any requests, formats, names and uploads.    *)
(***************************************************************************)
EXTENDS ProfilePictures, TLAPS

(* The inductive invariant: which requests get to which phase, what a lone   *)
(* request's instance names, and that a lone one really is alone.            *)
PhaseOfOp == \A r \in Request :
  /\ req[r].phase = "loaded" => req[r].op = "clear"
  /\ req[r].phase = "swept" => req[r].op = "upload"
AloneMeansAlone == \A r \in Request :
  req[r] # Idle /\ req[r].alone => \A s \in Request \ {r} : req[s] = Idle
UploadIsStored == \A r \in Request :
  req[r].phase = "stored" /\ req[r].op = "upload" /\ req[r].alone =>
    req[r].name # NoFile /\ files[req[r].name] = req[r].upload
ClearHasNoName == \A r \in Request :
  req[r].phase \in {"cleared", "stored"} /\ req[r].op = "clear" => req[r].name = NoFile
EditKeepsName == \A r \in Request :
  req[r].phase \in {"cleared", "stored"} /\ req[r].op = "edit" /\ req[r].alone =>
    req[r].name = picture /\ ~Dangles(picture)

IInv == /\ TypeOK /\ PhaseOfOp /\ AloneMeansAlone
        /\ UploadIsStored /\ ClearHasNoName /\ EditKeepsName

LEMMA Requests ==
  ASSUME TypeOK, NEW r \in Request
  PROVE  /\ req[r] \in Active \/ req[r] = Idle
         /\ req[r] = Idle <=> req[r].phase = "idle"
         /\ req[r] # Idle => req[r] \in Active
BY DEF TypeOK, Active, Idle

LEMMA FileFacts == /\ NoFile \notin File /\ None \in Content
                   /\ \A f \in FileOrNone : f = NoFile \/ f \in File
<1>1. NoFile \notin File
  BY DEF NoFile, File
<1> QED BY <1>1, BoundsAssumption DEF None, Content, FileOrNone

LEMMA WithoutTyped ==
  ASSUME TypeOK, NEW f \in FileOrNone
  PROVE  Without(f) \in [File -> Content]
BY FileFacts DEF Without, TypeOK

---------------------------------------------------------------------------
(* One request of r makes q; the others stay.                                *)

LEMMA OneRequest ==
  ASSUME TypeOK, NEW r \in Request, NEW q, req' = [req EXCEPT ![r] = q]
  PROVE  /\ req'[r] = q
         /\ \A s \in Request \ {r} : req'[s] = req[s]
BY DEF TypeOK

LEMMA LoadStep ==
  ASSUME IInv, NEW r \in Request, NEW op \in Ops, NEW ext \in Ext, Load(r, op, ext)
  PROVE  IInv'
<1> DEFINE alone == \A s \in Request \ {r} : req[s] = Idle
           new == IF op = "upload" THEN uploads + 1 ELSE uploads
           mine == [phase |-> IF op = "clear" THEN "loaded" ELSE "cleared",
                    op |-> op, name |-> picture, ext |-> ext,
                    upload |-> IF op = "upload" THEN new ELSE None, alone |-> alone]
<1>1. /\ req[r] = Idle /\ new <= MaxUpload /\ FormOpens(op)
      /\ uploads' = new /\ picture' = picture /\ files' = files
      /\ req'[r] = mine
      /\ req' = [s \in Request |-> req'[s]]
      /\ \A s \in Request \ {r} :
           req'[s] = IF req[s] = Idle THEN Idle ELSE [req[s] EXCEPT !.alone = FALSE]
  BY DEF Load
<1>2. /\ alone \in BOOLEAN
      /\ uploads \in Nat /\ MaxUpload \in Nat /\ picture \in FileOrNone
      /\ uploads <= MaxUpload
  BY BoundsAssumption DEF IInv, TypeOK
<1> HIDE DEF alone
<1>3. new \in Content /\ None \in Content
  BY <1>1, <1>2, BoundsAssumption DEF Content, None
<1> HIDE DEF new
<1>4. mine \in Active
  BY <1>2, <1>3 DEF Active
<1>5. /\ mine.phase = IF op = "clear" THEN "loaded" ELSE "cleared"
      /\ mine.op = op /\ mine.name = picture /\ mine.alone = alone
  OBVIOUS
<1> HIDE DEF mine
<1>6. ASSUME NEW s \in Request \ {r}
      PROVE  \/ req[s] = Idle /\ req'[s] = Idle
             \/ /\ req[s] \in Active /\ req'[s] \in Active
                /\ req'[s].phase = req[s].phase /\ req'[s].op = req[s].op
                /\ req'[s].name = req[s].name /\ req'[s].alone = FALSE
  <2>1. CASE req[s] = Idle
    BY <1>1, <2>1
  <2>2. CASE req[s] # Idle
    <3>1. req[s] \in Active /\ req'[s] = [req[s] EXCEPT !.alone = FALSE]
      BY <1>1, <2>2, Requests DEF IInv
    <3> QED BY <3>1 DEF Active
  <2> QED BY <2>1, <2>2
<1>7. TypeOK'
  <2>1. uploads' \in 0..MaxUpload
    BY <1>1, <1>3 DEF Content
  <2> QED BY <1>1, <1>4, <1>6, <2>1 DEF IInv, TypeOK
<1>8. \A s \in Request :
        \/ s = r
        \/ req'[s] = Idle /\ req'[s].phase = "idle"
        \/ /\ req[s] \in Active /\ req'[s].alone = FALSE
           /\ req'[s].phase = req[s].phase /\ req'[s].op = req[s].op
           /\ req'[s].name = req[s].name
  <2>1. Idle.phase = "idle"
    BY DEF Idle
  <2>2. ASSUME NEW s \in Request, s # r
        PROVE  \/ req'[s] = Idle /\ req'[s].phase = "idle"
               \/ /\ req[s] \in Active /\ req'[s].alone = FALSE
                  /\ req'[s].phase = req[s].phase /\ req'[s].op = req[s].op
                  /\ req'[s].name = req[s].name
    <3>1. s \in Request \ {r}
      BY <2>2
    <3> QED BY <1>6, <2>1, <3>1
  <2> QED BY <2>2
<1>9. \/ req'[r].phase = "loaded" /\ req'[r].op = "clear"
      \/ req'[r].phase = "cleared" /\ req'[r].op # "clear"
  BY <1>1, <1>5
<1>10. PhaseOfOp' /\ ClearHasNoName'
  <2>1. ASSUME NEW s \in Request
        PROVE  /\ req'[s].phase = "loaded" => req'[s].op = "clear"
               /\ req'[s].phase = "swept" => req'[s].op = "upload"
               /\ req'[s].phase \in {"cleared", "stored"} /\ req'[s].op = "clear" =>
                    req'[s].name = NoFile
    BY <1>8, <1>9 DEF IInv, PhaseOfOp, ClearHasNoName
  <2> QED BY <2>1 DEF PhaseOfOp, ClearHasNoName
<1>11. AloneMeansAlone'
  <2>1. ASSUME NEW s \in Request, req'[s] # Idle, req'[s].alone, NEW t \in Request \ {s}
        PROVE  req'[t] = Idle
    <3>1. s = r
      BY <1>8, <2>1
    <3>2. alone
      BY <1>1, <1>5, <2>1, <3>1
    <3>3. t \in Request \ {r} /\ req[t] = Idle
      BY <2>1, <3>1, <3>2 DEF alone
    <3> QED BY <1>1, <3>3
  <2> QED BY <2>1 DEF AloneMeansAlone
<1>12. UploadIsStored' /\ EditKeepsName'
  <2>1. op = "edit" => ~Dangles(picture)
    BY <1>1 DEF FormOpens
  <2>2. Dangles(picture)' <=> Dangles(picture)
    BY <1>1 DEF Dangles, Exists
  <2>3. ASSUME NEW s \in Request
        PROVE  /\ ~(req'[s].phase = "stored" /\ req'[s].op = "upload" /\ req'[s].alone)
               /\ req'[s].phase \in {"cleared", "stored"} /\ req'[s].op = "edit"
                    /\ req'[s].alone => req'[s].name = picture' /\ ~Dangles(picture)'
    <3>1. CASE s = r
      BY <1>1, <1>5, <1>9, <2>1, <2>2, <3>1
    <3>2. CASE s # r
      BY <1>8, <3>2
    <3> QED BY <3>1, <3>2
  <2> QED BY <2>3 DEF UploadIsStored, EditKeepsName
<1> QED BY <1>7, <1>10, <1>11, <1>12 DEF IInv

(* The other steps turn the request of r from q to p: what has to hold of p, *)
(* if the step changes files or the row and is not alone, of nobody else.    *)
LEMMA RequestMoves ==
  ASSUME IInv, NEW r \in Request, NEW p \in {Idle} \cup Active,
         req[r] # Idle, req' = [req EXCEPT ![r] = p],
         picture' \in FileOrNone, files' \in [File -> Content], uploads' = uploads,
         p # Idle =>
           /\ p.alone = req[r].alone
           /\ p.phase = "loaded" => p.op = "clear"
           /\ p.phase = "swept" => p.op = "upload"
           /\ p.phase = "stored" /\ p.op = "upload" =>
                p.name # NoFile /\ files'[p.name] = p.upload
           /\ p.phase \in {"cleared", "stored"} /\ p.op = "clear" => p.name = NoFile
           /\ p.phase \in {"cleared", "stored"} /\ p.op = "edit" /\ p.alone =>
                p.name = picture' /\ ~Dangles(picture)'
  PROVE  IInv'
<1>1. req'[r] = p /\ \A s \in Request \ {r} : req'[s] = req[s]
  BY OneRequest DEF IInv
<1>2. TypeOK'
  BY DEF IInv, TypeOK
<1>3. \A s \in Request \ {r} : req[s] = Idle \/ (req[s] \in Active /\ ~req[s].alone)
  <2>1. ASSUME NEW s \in Request \ {r}, req[s] # Idle
        PROVE  req[s] \in Active /\ ~req[s].alone
    <3>1. req[s] \in Active
      BY <2>1, Requests DEF IInv
    <3>2. CASE req[s].alone
      BY <2>1, <3>2 DEF IInv, AloneMeansAlone
    <3> QED BY <3>1, <3>2
  <2> QED BY <2>1
<1>4. p = Idle => p.phase = "idle"
  BY DEF Idle
<1>5. \A s \in Request \ {r} : req[s] = Idle => req[s].phase = "idle"
  BY DEF Idle
<1>6. PhaseOfOp' /\ ClearHasNoName'
  BY <1>1, <1>4 DEF IInv, PhaseOfOp, ClearHasNoName
<1>7. AloneMeansAlone'
  <2>1. ASSUME NEW s \in Request, req'[s] # Idle, req'[s].alone, NEW t \in Request \ {s}
        PROVE  req'[t] = Idle
    <3>1. s = r
      BY <1>1, <1>3, <2>1
    <3>2. req[r].alone
      BY <1>1, <2>1, <3>1
    <3> QED BY <1>1, <2>1, <3>1, <3>2 DEF IInv, AloneMeansAlone
  <2> QED BY <2>1 DEF AloneMeansAlone
<1>8. UploadIsStored' /\ EditKeepsName'
  BY <1>1, <1>3, <1>4, <1>5 DEF UploadIsStored, EditKeepsName
<1> QED BY <1>2, <1>6, <1>7, <1>8 DEF IInv

LEMMA ClearStep ==
  ASSUME IInv, NEW r \in Request, ClearPicture(r)
  PROVE  IInv'
<1> DEFINE p == [req[r] EXCEPT !.phase = "cleared", !.name = ClearedName]
<1>1. /\ req[r] \in Active /\ req[r] # Idle /\ req[r].op = "clear"
      /\ req[r].name \in FileOrNone
  BY Requests DEF IInv, ClearPicture, PhaseOfOp, Idle, Active
<1>2. req' = [req EXCEPT ![r] = p] /\ picture' = picture /\ uploads' = uploads
  BY DEF ClearPicture
<1>3. /\ p \in Active /\ p.phase = "cleared" /\ p.name = NoFile
      /\ p.op = "clear" /\ p.alone = req[r].alone
  BY <1>1 DEF Active, ClearedName, FileOrNone
<1>4. files' \in [File -> Content] /\ picture' \in FileOrNone
  BY <1>1, <1>2, WithoutTyped DEF ClearPicture, IInv, TypeOK
<1> HIDE DEF p
<1> QED BY <1>1, <1>2, <1>3, <1>4, RequestMoves

LEMMA SweepStep ==
  ASSUME IInv, NEW r \in Request, RemoveOldFile(r)
  PROVE  IInv'
<1> DEFINE phase == IF req[r].op = "upload" THEN "swept" ELSE "stored"
           p == [req[r] EXCEPT !.phase = phase]
<1>1. req[r] \in Active /\ req[r] # Idle /\ req[r].phase = "cleared"
  BY Requests DEF IInv, RemoveOldFile, Idle
<1>2. req' = [req EXCEPT ![r] = p] /\ picture' = picture /\ uploads' = uploads
  BY DEF RemoveOldFile
<1>3. /\ p \in Active /\ p.phase = phase /\ p.name = req[r].name
      /\ p.op = req[r].op /\ p.alone = req[r].alone
  BY <1>1 DEF Active
<1>4. files' \in [File -> Content] /\ picture' \in FileOrNone
  BY <1>2, WithoutTyped DEF RemoveOldFile, IInv, TypeOK
<1>5. req[r].op = "clear" => req[r].name = NoFile
  BY <1>1 DEF IInv, ClearHasNoName
<1>6. ASSUME req[r].op = "edit", req[r].alone
      PROVE  req[r].name = picture' /\ ~Dangles(picture)'
  <2>1. req[r].name = picture /\ ~Dangles(picture)
    BY <1>1, <1>6 DEF IInv, EditKeepsName
  <2>2. files' = files
    BY <1>6, <2>1 DEF RemoveOldFile, Sweeps
  <2> QED BY <1>2, <2>1, <2>2 DEF Dangles, Exists
<1> HIDE DEF p
<1> QED BY <1>1, <1>2, <1>3, <1>4, <1>5, <1>6, RequestMoves

LEMMA StoreStep ==
  ASSUME IInv, NEW r \in Request, StoreUpload(r)
  PROVE  IInv'
<1>1. /\ req[r] \in Active /\ req[r] # Idle /\ req[r].op = "upload"
      /\ req[r].ext \in Ext /\ req[r].upload \in Content
  BY Requests DEF IInv, StoreUpload, PhaseOfOp, Idle, Active
<1>2. PICK f \in AvailableNames(req[r].ext) :
        /\ files' = [files EXCEPT ![f] = req[r].upload]
        /\ req' = [req EXCEPT ![r].phase = "stored", ![r].name = f]
  BY DEF StoreUpload
<1> DEFINE p == [req[r] EXCEPT !.phase = "stored", !.name = f]
<1>3. req' = [req EXCEPT ![r] = p] /\ picture' = picture /\ uploads' = uploads
  BY <1>2 DEF StoreUpload
<1>4. f \in File /\ f # NoFile
  <2>1. f \in File
    BY <1>1, <1>2, BoundsAssumption DEF AvailableNames, File
  <2> QED BY <2>1, FileFacts
<1>5. /\ p \in Active /\ p.phase = "stored" /\ p.name = f
      /\ p.op = "upload" /\ p.alone = req[r].alone /\ p.upload = req[r].upload
  BY <1>1, <1>4 DEF Active, FileOrNone
<1>6. /\ files' \in [File -> Content] /\ files'[f] = req[r].upload
      /\ picture' \in FileOrNone
  BY <1>1, <1>2, <1>3, <1>4 DEF IInv, TypeOK
<1> HIDE DEF p
<1> QED BY <1>1, <1>3, <1>4, <1>5, <1>6, RequestMoves

LEMMA EndStep ==
  ASSUME IInv, NEW r \in Request, Commit(r) \/ Rollback(r)
  PROVE  IInv'
<1>1. /\ req[r] \in Active /\ req[r] # Idle
      /\ req' = [req EXCEPT ![r] = Idle] /\ files' = files /\ uploads' = uploads
  BY Requests DEF IInv, Commit, Rollback, Idle
<1>2. picture' \in FileOrNone
  BY <1>1 DEF IInv, TypeOK, Commit, Rollback, SavedName, Active
<1>3. files' \in [File -> Content]
  BY <1>1 DEF IInv, TypeOK
<1> QED BY <1>1, <1>2, <1>3, RequestMoves

---------------------------------------------------------------------------
(* The theorems *)

(* The inductive invariant holds in every reachable state.                   *)
THEOREM Invariance == Spec => []IInv
<1>1. Init => IInv
  BY FileFacts, BoundsAssumption
     DEF Init, IInv, TypeOK, PhaseOfOp, AloneMeansAlone, UploadIsStored,
         ClearHasNoName, EditKeepsName, FileOrNone, Idle
<1>2. IInv /\ [Next]_vars => IInv'
  <2> SUFFICES ASSUME IInv, [Next]_vars
               PROVE  IInv'
    OBVIOUS
  <2>1. CASE UNCHANGED vars
    BY <2>1 DEF vars, IInv, TypeOK, PhaseOfOp, AloneMeansAlone, UploadIsStored,
                ClearHasNoName, EditKeepsName, Dangles, Exists
  <2> QED BY <2>1, LoadStep, ClearStep, SweepStep, StoreStep, EndStep DEF Next
<1> QED BY <1>1, <1>2, PTL DEF Spec

(* The row, the files and every request keep their types.                    *)
THEOREM TypeCorrect == Spec => []TypeOK
  BY Invariance, PTL DEF IInv

(* Whatever saves and rollbacks came before, an upload that runs alone leaves *)
(* its own picture in place (models.py:130-140).                              *)
THEOREM LoneUploads == Spec => LoneUploadShows
<1>1. ASSUME IInv, NEW r \in Request, Commit(r), req[r].op = "upload", req[r].alone
      PROVE  picture' # NoFile /\ files'[picture'] = req[r].upload
  BY <1>1 DEF Commit, SavedName, IInv, UploadIsStored
<1>2. IInv /\ [Next]_vars =>
        [\A r \in Request :
           Commit(r) /\ req[r].op = "upload" /\ req[r].alone
             => picture' # NoFile /\ files'[picture'] = req[r].upload]_vars
  BY <1>1
<1> QED BY <1>2, Invariance, PTL DEF Spec, LoneUploadShows

(* An edit or a clear that runs alone never leaves a row that names a missing *)
(* file (forms.py:100-104, models.py:134).                                    *)
THEOREM LoneSaves == Spec => LoneSaveKeepsFile
<1>1. ASSUME IInv, NEW r \in Request, Commit(r), req[r].op \in {"edit", "clear"},
             req[r].alone
      PROVE  picture' = NoFile \/ files'[picture'] # None
  BY <1>1 DEF Commit, SavedName, IInv, ClearHasNoName, EditKeepsName, Dangles, Exists
<1>2. IInv /\ [Next]_vars =>
        [\A r \in Request :
           Commit(r) /\ req[r].op \in {"edit", "clear"} /\ req[r].alone
             => picture' = NoFile \/ files'[picture'] # None]_vars
  BY <1>1
<1> QED BY <1>2, Invariance, PTL DEF Spec, LoneSaveKeepsFile
=============================================================================
