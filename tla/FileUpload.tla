----------------------------- MODULE FileUpload -----------------------------
(***************************************************************************)
(* FilesService (src/files/files.service.ts): a file is presigned, its     *)
(* bytes go from the client to S3 without passing the API, and complete    *)
(* turns it into an avatar or a gallery image.                             *)
(*                                                                         *)
(* completeUpload is one transaction.  It locks the file row, asks S3      *)
(* while it holds the lock, and locks the row of the user or product it    *)
(* binds the file to.  What it wrote is private (link) until its COMMIT.   *)
(* The services under src/ never delete a user or a product, and no file   *)
(* that a client was told of; S3 objects are never deleted either.         *)
(***************************************************************************)
EXTENDS Naturals, FiniteSets

CONSTANTS
    File,           \* rows of files, each with an object key of its own
    Call,           \* POST /files/complete calls
    User,           \* users: the callers, and owners of avatars
    Product,        \* products: owners of galleries
    OwnerOf,        \* the owner of each file; others are orders and payments
    Staff,          \* users with the role ADMIN or SUPPORT
    Existing,       \* owners that have a row
    NoFile,         \* avatar_file_id IS NULL
    NoCall,         \* "locked by nobody"
    NoImage,        \* no row of product_images
    MaxFaults       \* bound: failures of the database, S3 or the process

Owner == {OwnerOf[f] : f \in File}

ASSUME UploadAssumption ==
    /\ IsFiniteSet(File)
    /\ DOMAIN OwnerOf = File
    /\ User \cap Product = {}
    /\ Staff \subseteq User
    /\ NoFile \notin File
    /\ NoCall \notin Call
    /\ NoImage \notin [sort : Nat, primary : BOOLEAN]
    /\ MaxFaults \in Nat

VARIABLES
    status,     \* committed status of each file; "absent": no row
    url,        \* what became of its presigned URL
    stored,     \* S3 has an object under its key
    avatar,     \* committed avatar_file_id of each user
    image,      \* committed row of product_images of each file
    pc,         \* the next step of each call
    file,       \* the file its request names
    link,       \* the row of product_images its transaction has inserted
    fileLock,   \* the call that holds the row lock of each file
    ownerLock,  \* the call that holds the row lock of each owner
    result,     \* the answer of each call
    faults      \* failures so far

vars == <<status, url, stored, avatar, image, pc, file, link,
          fileLock, ownerLock, result, faults>>

upload == <<url, stored>>
binding == <<avatar, image>>
tables == <<status, binding>>
locks == <<fileLock, ownerLock>>
-----------------------------------------------------------------------------
Image == [sort : Nat, primary : BOOLEAN]

Label == {"new", "lock", "head", "save", "bind", "link", "commit", "done"}

(* assertCanUploadForOwner: staff for everyone, a user for himself.        *)
CanUploadForOwner(u, f) == u \in Staff \/ (OwnerOf[f] \in User /\ OwnerOf[f] = u)

(* assertUserOrStaff: staff, or the user who is the file's owner.          *)
UserOrStaff(u, f) == u \in Staff \/ OwnerOf[f] = u

(* The committed gallery of a product.                                     *)
Gallery(p) == {f \in File : OwnerOf[f] = p /\ image[f] # NoImage}

Goto(c, l) == pc' = [pc EXCEPT ![c] = l]

(* A transaction that is left open when its call is answered.              *)
FinishStillOpen(c, r) ==
    /\ Goto(c, "done")
    /\ result' = [result EXCEPT ![c] = r]
    /\ UNCHANGED <<link, locks>>

(* The end of a transaction, and of its call.                              *)
Finish(c, r) ==
    /\ Goto(c, "done")
    /\ result' = [result EXCEPT ![c] = r]
    /\ link' = [link EXCEPT ![c] = NoImage]
    /\ fileLock' = [f \in File |-> IF fileLock[f] = c THEN NoCall ELSE fileLock[f]]
    /\ ownerLock' = [o \in Owner |-> IF ownerLock[o] = c THEN NoCall
                                                        ELSE ownerLock[o]]
-----------------------------------------------------------------------------
Init ==
    /\ status = [f \in File |-> "absent"]
    /\ url = [f \in File |-> "none"]
    /\ stored = [f \in File |-> FALSE]
    /\ avatar = [u \in User |-> NoFile]
    /\ image = [f \in File |-> NoImage]
    /\ pc = [c \in Call |-> "new"]
    /\ file \in [Call -> File]
    /\ link = [c \in Call |-> NoImage]
    /\ fileLock = [f \in File |-> NoCall]
    /\ ownerLock = [o \in Owner |-> NoCall]
    /\ result = [c \in Call |-> "none"]
    /\ faults = 0

(* assertOwnerExists: users, products, orders and payments alike.          *)
OwnerExists(f) == OwnerOf[f] \in Existing

(* createPresignedUpload: somebody who may saves the record.               *)
Presign(f) ==
    /\ url[f] = "none"
    /\ \E u \in User : CanUploadForOwner(u, f)
    /\ OwnerExists(f)
    /\ status' = [status EXCEPT ![f] = "pending"]
    /\ url' = [url EXCEPT ![f] = "signing"]
    /\ UNCHANGED <<stored, binding, pc, file, link, locks, result, faults>>

(* The URL is signed, and its client learns of it and of the file's id.    *)
Sign(f) ==
    /\ url[f] = "signing"
    /\ url' = [url EXCEPT ![f] = "valid"]
    /\ UNCHANGED <<stored, tables, pc, file, link, locks, result, faults>>

(* The client's PUT, any number of times.  (When the URL expires there are *)
(* no more: a client that stops is one of the behaviours already.)         *)
Upload(f) ==
    /\ url[f] = "valid"
    /\ stored' = [stored EXCEPT ![f] = TRUE]
    /\ UNCHANGED <<url, tables, pc, file, link, locks, result, faults>>

(* A client completes a file it was told of.  A malformed id, or one that  *)
(* has no row, is refused.                                                 *)
Receive(c) ==
    /\ pc[c] = "new"
    /\ \/ url[file[c]] = "valid" /\ Goto(c, "lock") /\ UNCHANGED result
       \/ Goto(c, "done") /\ result' = [result EXCEPT ![c] = "refused"]
    /\ UNCHANGED <<upload, tables, file, link, locks, faults>>

(* Lines 98-118: SELECT ... FOR UPDATE of the file, then the decisions     *)
(* about its owner, for whichever user calls, and about its status.        *)
(* Nothing writes the status FAILED.                                       *)
Lock(c) ==
    /\ pc[c] = "lock"
    /\ fileLock[file[c]] = NoCall
    /\ \/ /\ \E u \in User : ~UserOrStaff(u, file[c])
          /\ Finish(c, "forbidden")
       \/ /\ \E u \in User : UserOrStaff(u, file[c])
          /\ fileLock' = [fileLock EXCEPT ![file[c]] = c]
          /\ Goto(c, IF status[file[c]] = "ready" THEN "bind" ELSE "head")
          /\ UNCHANGED <<link, ownerLock, result>>
    /\ UNCHANGED <<upload, tables, file, faults>>

(* The client is believed.                                                 *)
HeadUnchecked(c) ==
    /\ pc[c] = "head"
    /\ Goto(c, "save")
    /\ UNCHANGED <<upload, tables, file, link, locks, result, faults>>

(* HeadObject, asked while the file is locked.                             *)
Head(c) ==
    /\ pc[c] = "head"
    /\ \/ /\ stored[file[c]]
          /\ Goto(c, "save")
          /\ UNCHANGED <<link, locks, result>>
       \/ ~stored[file[c]] /\ Finish(c, "missing")
    /\ UNCHANGED <<upload, tables, file, faults>>

(* save() through the repository outside the transaction.                  *)
SaveOutsideTx(c) ==
    /\ pc[c] = "save"
    /\ Goto(c, "bind")
    /\ status' = [status EXCEPT ![file[c]] = "ready"]
    /\ UNCHANGED <<upload, binding, file, link, locks, result, faults>>

(* UPDATE files SET status = 'ready'; the COMMIT publishes it.             *)
Save(c) ==
    /\ pc[c] = "save"
    /\ Goto(c, "bind")
    /\ UNCHANGED <<upload, tables, file, link, locks, result, faults>>

(* The product is read without a lock.                                     *)
BindUnlocked(c) ==
    /\ pc[c] = "bind"
    /\ Goto(c, IF OwnerOf[file[c]] \in Product THEN "link" ELSE "commit")
    /\ UNCHANGED <<upload, tables, file, link, locks, result, faults>>

(* bindFileToDomain: the UPDATE of the user's avatar_file_id or the SELECT *)
(* ... FOR UPDATE of the product waits for the row, which is there since   *)
(* the file was presigned; orders and payments are not bound.              *)
Bind(c) ==
    LET o == OwnerOf[file[c]] IN
    /\ pc[c] = "bind"
    /\ \/ /\ o \in User \cup Product
          /\ ownerLock[o] = NoCall
          /\ ownerLock' = [ownerLock EXCEPT ![o] = c]
       \/ o \notin User \cup Product /\ UNCHANGED ownerLock
    /\ Goto(c, IF o \in Product THEN "link" ELSE "commit")
    /\ UNCHANGED <<upload, tables, file, link, fileLock, result, faults>>

(* An upsert that does not ask whether the file is linked already.         *)
LinkAgain(c) ==
    LET n == Cardinality(Gallery(OwnerOf[file[c]])) IN
    /\ pc[c] = "link"
    /\ link' = [link EXCEPT ![c] = [sort |-> n, primary |-> n = 0]]
    /\ Goto(c, "commit")
    /\ UNCHANGED <<upload, tables, file, locks, result, faults>>

(* Lines 336-358: a linked file stays as it is; a new one is appended, and *)
(* the first image of a product becomes the primary one.                   *)
Link(c) ==
    LET n == Cardinality(Gallery(OwnerOf[file[c]])) IN
    /\ pc[c] = "link"
    /\ link' = [link EXCEPT
                   ![c] = IF image[file[c]] # NoImage THEN NoImage
                          ELSE [sort |-> n, primary |-> n = 0]]
    /\ Goto(c, "commit")
    /\ UNCHANGED <<upload, tables, file, locks, result, faults>>

(* COMMIT on the server.                                                   *)
Publish(c) ==
    /\ status' = [status EXCEPT ![file[c]] = "ready"]
    /\ avatar' = [u \in User |-> IF u = OwnerOf[file[c]] THEN file[c]
                                                       ELSE avatar[u]]
    /\ image' = [f \in File |-> IF f = file[c] /\ link[c] # NoImage
                                THEN link[c] ELSE image[f]]

(* An answer given before the COMMIT is known to have succeeded.           *)
CommitAfterAnswer(c) ==
    /\ pc[c] = "commit"
    /\ Finish(c, "ok")
    /\ Publish(c) \/ UNCHANGED tables
    /\ UNCHANGED <<upload, file, faults>>

Commit(c) ==
    /\ pc[c] = "commit"
    /\ Publish(c)
    /\ Finish(c, "ok")
    /\ UNCHANGED <<upload, file, faults>>
-----------------------------------------------------------------------------
Fail == faults < MaxFaults /\ faults' = faults + 1

(* Signing fails: the record is deleted again, if that does not fail too.  *)
SignFails(f) ==
    /\ Fail
    /\ url[f] = "signing"
    /\ \/ /\ url' = [url EXCEPT ![f] = "none"]
          /\ status' = [status EXCEPT ![f] = "absent"]
       \/ /\ url' = [url EXCEPT ![f] = "lost"]
          /\ UNCHANGED status
    /\ UNCHANGED <<stored, binding, pc, file, link, locks, result>>

InTx(c) == pc[c] \in {"lock", "head", "save", "bind", "link", "commit"}

(* A statement, S3 or the connection fails, and transaction() rolls back;  *)
(* a COMMIT may have taken effect all the same.                            *)
CallFails(c) ==
    /\ Fail
    /\ InTx(c)
    /\ UNCHANGED tables \/ (pc[c] = "commit" /\ Publish(c))
    /\ Finish(c, "error")
    /\ UNCHANGED <<upload, file>>

(* The process dies, and the server rolls its transactions back.           *)
Crash ==
    /\ Fail
    /\ pc' = [c \in Call |-> IF pc[c] = "new" THEN "new" ELSE "done"]
    /\ result' = [c \in Call |-> IF InTx(c) THEN "error" ELSE result[c]]
    /\ link' = [c \in Call |-> NoImage]
    /\ fileLock' = [f \in File |-> NoCall]
    /\ ownerLock' = [o \in Owner |-> NoCall]
    /\ url' = [f \in File |-> IF url[f] = "signing" THEN "lost" ELSE url[f]]
    /\ UNCHANGED <<stored, tables, file>>
-----------------------------------------------------------------------------
Advance(c) ==
    Receive(c) \/ Lock(c) \/ Head(c) \/ Save(c) \/ Bind(c) \/ Link(c) \/ Commit(c)

Terminating == (\A c \in Call : pc[c] = "done") /\ UNCHANGED vars

Next ==
    \/ \E c \in Call : Advance(c) \/ CallFails(c)
    \/ \E f \in File : Presign(f) \/ Sign(f) \/ SignFails(f) \/ Upload(f)
    \/ Crash
    \/ Terminating

Spec == Init /\ [][Next]_vars

(* Node runs every continuation, S3 answers, and Postgres grants a lock    *)
(* that is free.  Nothing is assumed of the clients.                       *)
FairSpec == Spec /\ \A c \in Call : WF_vars(pc[c] # "new" /\ Advance(c))
-----------------------------------------------------------------------------
(* Every variable holds a value of its type.                               *)
TypeOK ==
    /\ status \in [File -> {"absent", "pending", "ready"}]
    /\ url \in [File -> {"none", "signing", "valid", "lost"}]
    /\ stored \in [File -> BOOLEAN]
    /\ avatar \in [User -> File \cup {NoFile}]
    /\ image \in [File -> Image \cup {NoImage}]
    /\ pc \in [Call -> Label]
    /\ file \in [Call -> File]
    /\ link \in [Call -> Image \cup {NoImage}]
    /\ fileLock \in [File -> Call \cup {NoCall}]
    /\ ownerLock \in [Owner -> Call \cup {NoCall}]
    /\ result \in [Call -> {"none", "ok", "refused", "forbidden", "missing", "error"}]
    /\ faults \in 0..MaxFaults

(* However completions of a product's files overlap or are repeated, its   *)
(* gallery is numbered 0, 1, 2, ... without a gap or a repetition, and     *)
(* exactly the first image is the primary one (lines 325-358).             *)
GalleryIsOrdered ==
    \A p \in Product :
        /\ {image[f].sort : f \in Gallery(p)} = 0..(Cardinality(Gallery(p)) - 1)
        /\ \A f \in Gallery(p) : image[f].primary <=> image[f].sort = 0
        /\ \A f, g \in Gallery(p) : image[f].sort = image[g].sort => f = g

(* The status of a file and its binding change together, whatever fails    *)
(* in between: a product's file is ready exactly when it is in the gallery,*)
(* and a user has an avatar exactly when a file of his is ready, and then  *)
(* the avatar is such a file.                                              *)
BoundWhenReady ==
    /\ \A f \in File : OwnerOf[f] \in Product =>
          (status[f] = "ready" <=> image[f] # NoImage)
    /\ \A f \in File : OwnerOf[f] \in User /\ status[f] = "ready" =>
          avatar[OwnerOf[f]] # NoFile
    /\ \A u \in User : avatar[u] # NoFile =>
          OwnerOf[avatar[u]] = u /\ status[avatar[u]] = "ready"

(* A ready file has an object in storage: nobody can complete what was not *)
(* uploaded.                                                               *)
ReadyHasObject == \A f \in File : status[f] = "ready" => stored[f]

(* A call that was answered with a file completed it: the file is ready,   *)
(* in the gallery, or its user has an avatar.                              *)
AnswersAreTrue ==
    \A c \in Call : result[c] = "ok" =>
        LET o == OwnerOf[file[c]] IN
        /\ status[file[c]] = "ready"
        /\ o \in Product => image[file[c]] # NoImage
        /\ o \in User => avatar[o] # NoFile

(* Completing again, late or twice, moves no image and takes none away,    *)
(* and a ready file stays ready.                                           *)
GalleryIsStable ==
    [][\A f \in File :
          /\ image[f] # NoImage => image'[f] = image[f]
          /\ status[f] = "ready" => status'[f] = "ready"]_vars

(* A call that began its transaction is answered, also when it waits for   *)
(* the file or for the owner.                                              *)
EveryCallEnds == \A c \in Call : pc[c] # "new" ~> pc[c] = "done"
-----------------------------------------------------------------------------
(* The inductive invariant behind the theorems of FileUploadProofs.        *)

(* The row locks a call holds, by how far it came.                         *)
HoldsLocks(c) ==
    /\ pc[c] \in {"head", "save", "bind", "link", "commit"} =>
          fileLock[file[c]] = c
    /\ pc[c] = "link" \/ (pc[c] = "commit" /\ OwnerOf[file[c]] \in Product) =>
          ownerLock[OwnerOf[file[c]]] = c

(* What a transaction has seen of its file is still so: the row exists, is *)
(* ready or has its object, and only the link is missing.                  *)
SeenHolds(c) ==
    /\ pc[c] \in {"lock", "head", "save", "bind", "link", "commit"} =>
          status[file[c]] # "absent" /\ url[file[c]] = "valid"
    /\ pc[c] \in {"save", "bind", "link", "commit"} => stored[file[c]]
    /\ pc[c] = "link" => OwnerOf[file[c]] \in Product

(* The row to be inserted is the next of the gallery as committed.         *)
LinkIsNext(c) ==
    /\ pc[c] # "commit" => link[c] = NoImage
    /\ pc[c] = "commit" /\ OwnerOf[file[c]] \notin Product => link[c] = NoImage
    /\ pc[c] = "commit" /\ OwnerOf[file[c]] \in Product =>
          IF image[file[c]] # NoImage THEN link[c] = NoImage
          ELSE LET n == Cardinality(Gallery(OwnerOf[file[c]])) IN
               link[c] = [sort |-> n, primary |-> n = 0]

(* A client knows of a file when its record is there for good.             *)
UrlHasRow ==
    /\ \A f \in File : url[f] = "none" <=> status[f] = "absent"
    /\ \A f \in File : status[f] = "ready" => url[f] = "valid"

(* Everything at once: true initially and kept by every step.              *)
IInv ==
    /\ TypeOK
    /\ \A c \in Call : HoldsLocks(c) /\ SeenHolds(c) /\ LinkIsNext(c)
    /\ UrlHasRow
    /\ GalleryIsOrdered
    /\ BoundWhenReady
    /\ ReadyHasObject
    /\ AnswersAreTrue
=============================================================================
