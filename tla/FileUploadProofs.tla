-------------------------- MODULE FileUploadProofs --------------------------
(* Proofs about FileUpload, for any files, owners, users and calls, and    *)
(* any bound on the failures.                                              *)
EXTENDS FileUpload, FiniteSetTheorems, TLAPS

LEMMA InitIInv == Init => IInv
<1> SUFFICES ASSUME Init PROVE IInv
  OBVIOUS
<1> USE UploadAssumption DEF Init
<1>1. TypeOK
  BY DEF TypeOK, Image, Label
<1>2. \A c \in Call : HoldsLocks(c) /\ SeenHolds(c) /\ LinkIsNext(c)
  BY DEF HoldsLocks, SeenHolds, LinkIsNext
<1>3. UrlHasRow /\ BoundWhenReady /\ ReadyHasObject /\ AnswersAreTrue
  BY DEF UrlHasRow, BoundWhenReady, ReadyHasObject, AnswersAreTrue
<1>4. GalleryIsOrdered
  <2>1. \A p : Gallery(p) = {}
    BY DEF Gallery
  <2>2. \A p : Cardinality(Gallery(p)) = 0
    BY <2>1, FS_EmptySet
  <2>3. \A p : {image[f].sort : f \in Gallery(p)} = 0..(0 - 1)
    BY <2>1
  <2>. QED
    BY <2>1, <2>2, <2>3 DEF GalleryIsOrdered
<1>. QED
  BY <1>1, <1>2, <1>3, <1>4 DEF IInv

LEMMA GalleryIsFinite ==
  ASSUME NEW p
  PROVE  IsFiniteSet(Gallery(p)) /\ Cardinality(Gallery(p)) \in Nat
<1>1. IsFiniteSet(Gallery(p))
  BY UploadAssumption, FS_Subset DEF Gallery
<1>. QED
  BY <1>1, FS_CardinalityType

LEMMA RowIsNotNull ==
  ASSUME NEW n \in Nat, NEW b \in BOOLEAN
  PROVE  [sort |-> n, primary |-> b] # NoImage
BY UploadAssumption

LEMMA NoLinkYet ==
  ASSUME IInv, NEW c \in Call, pc[c] # "commit"
  PROVE  link[c] = NoImage
<1>1. LinkIsNext(c)
  BY DEF IInv
<1>. QED
  BY <1>1 DEF LinkIsNext

(* What is said of committed rows stays so while none is committed.        *)
LEMMA TablesKept ==
  ASSUME IInv, UNCHANGED <<tables, stored, file>>
  PROVE  /\ \A p : Gallery(p)' = Gallery(p)
         /\ GalleryIsOrdered' /\ BoundWhenReady' /\ ReadyHasObject'
         /\ (\A c \in Call : result'[c] = "ok" => result[c] = "ok")
               => AnswersAreTrue'
<1> USE DEF tables, binding
<1>1. \A p : Gallery(p)' = Gallery(p)
  BY DEF Gallery
<1>2. GalleryIsOrdered'
  BY <1>1 DEF IInv, GalleryIsOrdered
<1>3. BoundWhenReady' /\ ReadyHasObject'
  BY DEF IInv, BoundWhenReady, ReadyHasObject
<1>4. (\A c \in Call : result'[c] = "ok" => result[c] = "ok")
          => AnswersAreTrue'
  BY DEF IInv, AnswersAreTrue
<1>. QED
  BY <1>1, <1>2, <1>3, <1>4
-----------------------------------------------------------------------------
(* The end of a transaction frees the locks of its call and no others.     *)
LEMMA FinishFrees ==
  ASSUME TypeOK, NEW c \in Call, NEW r, Finish(c, r),
         r \in {"ok", "forbidden", "missing", "error"}
  PROVE  /\ pc' \in [Call -> Label]
         /\ link' \in [Call -> Image \cup {NoImage}]
         /\ fileLock' \in [File -> Call \cup {NoCall}]
         /\ ownerLock' \in [Owner -> Call \cup {NoCall}]
         /\ result' \in [Call -> {"none", "ok", "refused", "forbidden",
                                  "missing", "error"}]
         /\ pc'[c] = "done" /\ link'[c] = NoImage /\ result'[c] = r
         /\ \A d \in Call \ {c} : /\ pc'[d] = pc[d]
                                  /\ link'[d] = link[d]
                                  /\ result'[d] = result[d]
         /\ \A f \in File, d \in Call \ {c} :
               fileLock[f] = d => fileLock'[f] = d
         /\ \A o \in Owner, d \in Call \ {c} :
               ownerLock[o] = d => ownerLock'[o] = d
<1> USE DEF TypeOK, Finish, Goto
<1>1. pc' \in [Call -> Label] /\ link' \in [Call -> Image \cup {NoImage}]
  BY DEF Label
<1>2. /\ fileLock' \in [File -> Call \cup {NoCall}]
      /\ ownerLock' \in [Owner -> Call \cup {NoCall}]
  OBVIOUS
<1>3. result' \in [Call -> {"none", "ok", "refused", "forbidden",
                            "missing", "error"}]
  OBVIOUS
<1>4. /\ pc'[c] = "done" /\ link'[c] = NoImage /\ result'[c] = r
      /\ \A d \in Call \ {c} : /\ pc'[d] = pc[d]
                               /\ link'[d] = link[d]
                               /\ result'[d] = result[d]
  OBVIOUS
<1>5. \A f \in File, d \in Call \ {c} : fileLock[f] = d => fileLock'[f] = d
  OBVIOUS
<1>6. \A o \in Owner, d \in Call \ {c} : ownerLock[o] = d => ownerLock'[o] = d
  OBVIOUS
<1>. QED
  BY <1>1, <1>2, <1>3, <1>4, <1>5, <1>6

(* A transaction that is rolled back.                                      *)
LEMMA RollbackStep ==
  ASSUME IInv, NEW c \in Call, NEW r \in {"forbidden", "missing", "error"},
         Finish(c, r), UNCHANGED <<upload, tables, file>>,
         faults' \in 0..MaxFaults
  PROVE  IInv'
<1> USE DEF upload, tables, binding
<1>0. TypeOK /\ (\A f \in File : OwnerOf[f] \in Owner)
  BY DEF IInv, Owner
<1>a. /\ pc'[c] = "done" /\ link'[c] = NoImage /\ result'[c] = r
      /\ \A d \in Call \ {c} : /\ pc'[d] = pc[d]
                               /\ link'[d] = link[d]
                               /\ result'[d] = result[d]
      /\ \A f \in File, d \in Call \ {c} : fileLock[f] = d => fileLock'[f] = d
      /\ \A o \in Owner, d \in Call \ {c} :
            ownerLock[o] = d => ownerLock'[o] = d
  BY <1>0, FinishFrees
<1>1. TypeOK'
  BY <1>0, FinishFrees DEF TypeOK
<1>2. ASSUME NEW d \in Call
      PROVE  HoldsLocks(d)' /\ SeenHolds(d)' /\ LinkIsNext(d)'
  <2>1. CASE d = c
    BY <1>a, <2>1 DEF HoldsLocks, SeenHolds, LinkIsNext
  <2>2. CASE d # c
    <3>1. HoldsLocks(d)'
      BY <1>0, <1>a, <2>2 DEF IInv, TypeOK, HoldsLocks
    <3>2. SeenHolds(d)'
      BY <1>a, <2>2 DEF IInv, SeenHolds
    <3>3. LinkIsNext(d)'
      BY <1>a, <2>2, TablesKept DEF IInv, LinkIsNext
    <3>. QED
      BY <3>1, <3>2, <3>3
  <2>. QED
    BY <2>1, <2>2
<1>3. UrlHasRow'
  BY DEF IInv, UrlHasRow
<1>4. GalleryIsOrdered' /\ BoundWhenReady' /\ ReadyHasObject'
  BY TablesKept
<1>5. \A d \in Call : result'[d] = "ok" => result[d] = "ok"
  BY <1>a
<1>6. AnswersAreTrue'
  BY <1>5, TablesKept
<1>. QED
  BY <1>1, <1>2, <1>3, <1>4, <1>6 DEF IInv
-----------------------------------------------------------------------------
(* A step of the upload itself: a record is saved or deleted again, a URL  *)
(* is signed or lost, an object is stored.  No call knows of the file yet, *)
(* unless it is only its object that is stored.                            *)
LEMMA UploadStep ==
  ASSUME IInv, NEW f \in File,
         Presign(f) \/ Sign(f) \/ SignFails(f) \/ Upload(f)
  PROVE  IInv'
<1>0. UNCHANGED <<binding, pc, file, link, locks, result>>
  BY DEF Presign, Sign, SignFails, Upload, tables
<1> USE <1>0 DEF binding, locks
<1>1. TypeOK'
  <2>1. faults' \in 0..MaxFaults
    BY UploadAssumption
       DEF IInv, TypeOK, Presign, Sign, SignFails, Upload, Fail
  <2>2. /\ status' \in [File -> {"absent", "pending", "ready"}]
        /\ url' \in [File -> {"none", "signing", "valid", "lost"}]
        /\ stored' \in [File -> BOOLEAN]
    BY DEF IInv, TypeOK, Presign, Sign, SignFails, Upload, tables
  <2>. QED
    BY <2>1, <2>2 DEF IInv, TypeOK
<1>2. /\ \A g \in File \ {f} : /\ status'[g] = status[g] /\ url'[g] = url[g]
                               /\ stored'[g] = stored[g]
      /\ stored[f] => stored'[f]
      /\ status[f] = "ready" <=> status'[f] = "ready"
      /\ url[f] = "valid" => url'[f] = "valid" /\ status'[f] = status[f]
      /\ url'[f] = "none" <=> status'[f] = "absent"
      /\ status'[f] = "ready" => url'[f] = "valid"
  BY DEF IInv, TypeOK, UrlHasRow, Presign, Sign, SignFails, Upload, tables
<1>3. ASSUME NEW c \in Call
      PROVE  HoldsLocks(c)' /\ SeenHolds(c)' /\ LinkIsNext(c)'
  <2>1. file[c] \in File
    BY DEF IInv, TypeOK
  <2>2. HoldsLocks(c)'
    BY DEF IInv, HoldsLocks
  <2>3. SeenHolds(c)'
    BY <1>2, <2>1 DEF IInv, SeenHolds
  <2>4. LinkIsNext(c)'
    BY DEF IInv, LinkIsNext, Gallery
  <2>. QED
    BY <2>2, <2>3, <2>4
<1>4. UrlHasRow'
  BY <1>2 DEF IInv, UrlHasRow
<1>5. GalleryIsOrdered'
  BY DEF IInv, GalleryIsOrdered, Gallery
<1>6. BoundWhenReady'
  <2>1. \A g \in File : status'[g] = "ready" <=> status[g] = "ready"
    BY <1>2
  <2>2. \A u \in User : avatar[u] # NoFile => avatar[u] \in File
    BY DEF IInv, TypeOK
  <2>. QED
    BY <2>1, <2>2 DEF IInv, BoundWhenReady
<1>7. ReadyHasObject'
  BY <1>2 DEF IInv, ReadyHasObject
<1>8. AnswersAreTrue'
  <2>1. \A c \in Call : status[file[c]] = "ready" => status'[file[c]] = "ready"
    BY <1>2 DEF IInv, TypeOK
  <2>. QED
    BY <2>1 DEF IInv, AnswersAreTrue
<1>. QED
  BY <1>1, <1>3, <1>4, <1>5, <1>6, <1>7, <1>8 DEF IInv
-----------------------------------------------------------------------------
(* The steps of a transaction that commit nothing.                         *)
LEMMA ReceiveStep ==
  ASSUME IInv, NEW c \in Call, Receive(c)
  PROVE  IInv'
<1> USE DEF Receive, Goto, upload, tables, binding, locks
<1>0. pc[c] = "new" /\ pc'[c] \in {"lock", "done"}
         /\ (pc'[c] = "lock" => url[file[c]] = "valid" /\ file[c] \in File)
         /\ \A d \in Call \ {c} : pc'[d] = pc[d]
  BY DEF IInv, TypeOK
<1>1. TypeOK'
  BY DEF IInv, TypeOK, Label
<1>2. ASSUME NEW d \in Call
      PROVE  HoldsLocks(d)' /\ SeenHolds(d)' /\ LinkIsNext(d)'
  <2>1. CASE d = c
    BY <1>0, <2>1 DEF IInv, HoldsLocks, SeenHolds, LinkIsNext, UrlHasRow
  <2>2. CASE d # c
    <3>1. HoldsLocks(d)'
      BY <1>0, <2>2 DEF IInv, HoldsLocks
    <3>2. SeenHolds(d)'
      BY <1>0, <2>2 DEF IInv, SeenHolds
    <3>3. LinkIsNext(d)'
      BY <1>0, <2>2, TablesKept DEF IInv, LinkIsNext
    <3>. QED
      BY <3>1, <3>2, <3>3
  <2>. QED
    BY <2>1, <2>2
<1>3. UrlHasRow'
  BY DEF IInv, UrlHasRow
<1>4. \A d \in Call : result'[d] = "ok" => result[d] = "ok"
  BY DEF IInv, TypeOK
<1>5. GalleryIsOrdered' /\ BoundWhenReady' /\ ReadyHasObject' /\ AnswersAreTrue'
  BY <1>4, TablesKept
<1>. QED
  BY <1>1, <1>2, <1>3, <1>5 DEF IInv

(* The file is locked: no other transaction works on it.                   *)
LEMMA LockStep ==
  ASSUME IInv, NEW c \in Call, Lock(c)
  PROVE  IInv'
<1>1. CASE Finish(c, "forbidden")
  BY <1>1, RollbackStep DEF Lock, IInv, TypeOK
<1>2. CASE ~Finish(c, "forbidden")
  <2> USE DEF upload, tables, binding, locks
  <2>0. /\ pc[c] = "lock" /\ fileLock[file[c]] = NoCall
        /\ fileLock' = [fileLock EXCEPT ![file[c]] = c]
        /\ pc' = [pc EXCEPT ![c] = IF status[file[c]] = "ready" THEN "bind"
                                   ELSE "head"]
        /\ UNCHANGED <<link, ownerLock, result, url, stored, status, avatar,
                       image, file, faults>>
    BY <1>2 DEF Lock, Goto
  <2>1. TypeOK'
    BY <2>0 DEF IInv, TypeOK, Label
  <2>2. /\ file[c] \in File /\ fileLock'[file[c]] = c
        /\ pc'[c] = (IF status[file[c]] = "ready" THEN "bind" ELSE "head")
        /\ \A d \in Call \ {c} : pc'[d] = pc[d]
        /\ \A d \in Call \ {c} : fileLock[file[d]] = d => fileLock'[file[d]] = d
    BY <2>0, UploadAssumption DEF IInv, TypeOK
  <2>3. ASSUME NEW d \in Call
        PROVE  HoldsLocks(d)' /\ SeenHolds(d)' /\ LinkIsNext(d)'
    <3>1. CASE d = c
      <4>1. HoldsLocks(c)'
        BY <2>0, <2>2 DEF HoldsLocks
      <4>2. SeenHolds(c)'
        BY <2>0, <2>2 DEF IInv, SeenHolds, ReadyHasObject
      <4>3. pc'[c] # "commit" /\ link'[c] = NoImage
        BY <2>0, <2>2, NoLinkYet
      <4>4. LinkIsNext(c)'
        BY <4>3 DEF LinkIsNext
      <4>. QED
        BY <3>1, <4>1, <4>2, <4>4
    <3>2. CASE d # c
      <4>1. HoldsLocks(d)'
        BY <2>0, <2>2, <3>2 DEF IInv, HoldsLocks
      <4>2. SeenHolds(d)'
        BY <2>0, <2>2, <3>2 DEF IInv, SeenHolds
      <4>3. LinkIsNext(d)'
        BY <2>0, <2>2, <3>2, TablesKept DEF IInv, LinkIsNext
      <4>. QED
        BY <4>1, <4>2, <4>3
    <3>. QED
      BY <3>1, <3>2
  <2>4. UrlHasRow'
    BY <2>0 DEF IInv, UrlHasRow
  <2>5. GalleryIsOrdered' /\ BoundWhenReady' /\ ReadyHasObject' /\ AnswersAreTrue'
    BY <2>0, TablesKept
  <2>. QED
    BY <2>1, <2>3, <2>4, <2>5 DEF IInv
<1>. QED
  BY <1>1, <1>2

LEMMA HeadSaveStep ==
  ASSUME IInv, NEW c \in Call, Head(c) \/ Save(c)
  PROVE  IInv'
<1>1. CASE Head(c) /\ Finish(c, "missing")
  BY <1>1, RollbackStep DEF Head, IInv, TypeOK
<1>2. CASE ~(Head(c) /\ Finish(c, "missing"))
  <2> USE DEF upload, tables, binding, locks
  <2>0. /\ UNCHANGED <<link, fileLock, ownerLock, result, url, stored, status,
                       avatar, image, file, faults>>
        /\ \/ pc[c] = "head" /\ stored[file[c]] /\ pc' = [pc EXCEPT ![c] = "save"]
           \/ pc[c] = "save" /\ pc' = [pc EXCEPT ![c] = "bind"]
    BY <1>2 DEF Head, Save, Goto
  <2>1. TypeOK'
    BY <2>0 DEF IInv, TypeOK, Label
  <2>2. /\ \/ pc[c] = "head" /\ stored[file[c]] /\ pc'[c] = "save"
           \/ pc[c] = "save" /\ pc'[c] = "bind"
        /\ \A d \in Call \ {c} : pc'[d] = pc[d]
    BY <2>0 DEF IInv, TypeOK
  <2>3. ASSUME NEW d \in Call
        PROVE  HoldsLocks(d)' /\ SeenHolds(d)' /\ LinkIsNext(d)'
    <3>1. HoldsLocks(d)'
      BY <2>0, <2>2 DEF IInv, HoldsLocks
    <3>2. SeenHolds(d)'
      BY <2>0, <2>2 DEF IInv, SeenHolds
    <3>3. LinkIsNext(d)'
      BY <2>0, <2>2, TablesKept DEF IInv, LinkIsNext
    <3>. QED
      BY <3>1, <3>2, <3>3
  <2>4. UrlHasRow'
    BY <2>0 DEF IInv, UrlHasRow
  <2>5. GalleryIsOrdered' /\ BoundWhenReady' /\ ReadyHasObject' /\ AnswersAreTrue'
    BY <2>0, TablesKept
  <2>. QED
    BY <2>1, <2>3, <2>4, <2>5 DEF IInv
<1>. QED
  BY <1>1, <1>2

(* The owner is locked, if it is a user or a product.                      *)
LEMMA BindStep ==
  ASSUME IInv, NEW c \in Call, Bind(c)
  PROVE  IInv'
<1> USE DEF Bind, Goto, upload, tables, binding
<1>0. \A d \in Call : file[d] \in File /\ OwnerOf[file[d]] \in Owner
  BY DEF IInv, TypeOK, Owner
<1>1. TypeOK'
  BY <1>0 DEF IInv, TypeOK, Label
<1>2. /\ pc[c] = "bind"
      /\ pc'[c] = (IF OwnerOf[file[c]] \in Product THEN "link" ELSE "commit")
      /\ OwnerOf[file[c]] \in Product => ownerLock'[OwnerOf[file[c]]] = c
      /\ \A d \in Call \ {c} : pc'[d] = pc[d]
      /\ \A d \in Call \ {c} : ownerLock[OwnerOf[file[d]]] = d =>
                               ownerLock'[OwnerOf[file[d]]] = d
  BY <1>0, UploadAssumption DEF IInv, TypeOK
<1>3. ASSUME NEW d \in Call
      PROVE  HoldsLocks(d)' /\ SeenHolds(d)' /\ LinkIsNext(d)'
  <2>1. CASE d = c
    <3>1. HoldsLocks(c)'
      BY <1>2 DEF IInv, HoldsLocks
    <3>2. SeenHolds(c)'
      BY <1>2 DEF IInv, SeenHolds
    <3>3. /\ link'[c] = NoImage
          /\ pc'[c] = "commit" => OwnerOf[file[c]] \notin Product
      BY <1>2, NoLinkYet
    <3>4. LinkIsNext(c)'
      BY <3>3 DEF LinkIsNext
    <3>. QED
      BY <2>1, <3>1, <3>2, <3>4
  <2>2. CASE d # c
    <3>1. HoldsLocks(d)'
      BY <1>2, <2>2 DEF IInv, HoldsLocks
    <3>2. SeenHolds(d)'
      BY <1>2, <2>2 DEF IInv, SeenHolds
    <3>3. LinkIsNext(d)'
      BY <1>2, <2>2, TablesKept DEF IInv, LinkIsNext
    <3>. QED
      BY <3>1, <3>2, <3>3
  <2>. QED
    BY <2>1, <2>2
<1>4. UrlHasRow'
  BY DEF IInv, UrlHasRow
<1>5. GalleryIsOrdered' /\ BoundWhenReady' /\ ReadyHasObject' /\ AnswersAreTrue'
  BY TablesKept
<1>. QED
  BY <1>1, <1>3, <1>4, <1>5 DEF IInv

LEMMA LinkStep ==
  ASSUME IInv, NEW c \in Call, Link(c)
  PROVE  IInv'
<1> USE DEF Link, Goto, upload, tables, binding, locks
<1> DEFINE n == Cardinality(Gallery(OwnerOf[file[c]]))
<1>0. n \in Nat
  BY GalleryIsFinite
<1>1. TypeOK'
  BY <1>0 DEF IInv, TypeOK, Label, Image
<1>2. /\ pc[c] = "link" /\ pc'[c] = "commit"
      /\ link'[c] = IF image[file[c]] # NoImage THEN NoImage
                    ELSE [sort |-> n, primary |-> n = 0]
      /\ \A d \in Call \ {c} : pc'[d] = pc[d] /\ link'[d] = link[d]
  BY DEF IInv, TypeOK
<1>3. ASSUME NEW d \in Call
      PROVE  HoldsLocks(d)' /\ SeenHolds(d)' /\ LinkIsNext(d)'
  <2>1. HoldsLocks(d)'
    BY <1>2 DEF IInv, HoldsLocks
  <2>2. SeenHolds(d)'
    BY <1>2 DEF IInv, SeenHolds
  <2>3. Gallery(OwnerOf[file[d]])' = Gallery(OwnerOf[file[d]])
    BY DEF Gallery
  <2>4. CASE d = c
    <3>1. OwnerOf[file[c]] \in Product
      BY <1>2 DEF IInv, SeenHolds
    <3>2. LinkIsNext(c)'
      BY <1>2, <2>3, <2>4, <3>1 DEF LinkIsNext
    <3>. QED
      BY <2>1, <2>2, <2>4, <3>2
  <2>5. CASE d # c
    <3>1. LinkIsNext(d)'
      BY <1>2, <2>3, <2>5 DEF IInv, LinkIsNext
    <3>. QED
      BY <2>1, <2>2, <3>1
  <2>. QED
    BY <2>4, <2>5
<1>4. UrlHasRow'
  BY DEF IInv, UrlHasRow
<1>5. GalleryIsOrdered' /\ BoundWhenReady' /\ ReadyHasObject' /\ AnswersAreTrue'
  BY TablesKept
<1>. QED
  BY <1>1, <1>3, <1>4, <1>5 DEF IInv
-----------------------------------------------------------------------------
(* A row appended with the gallery's size as its sort order keeps the      *)
(* gallery of its product in order.                                        *)
LEMMA AppendKeepsOrder ==
  ASSUME IInv, NEW f \in File, NEW n, OwnerOf[f] \in Product,
         n = Cardinality(Gallery(OwnerOf[f])),
         image[f] = NoImage,
         image' = [g \in File |-> IF g = f THEN [sort |-> n, primary |-> n = 0]
                                           ELSE image[g]]
  PROVE  /\ GalleryIsOrdered'
         /\ \A p \in Product \ {OwnerOf[f]} : Gallery(p)' = Gallery(p)
<1> DEFINE q == OwnerOf[f]
<1>1. n \in Nat /\ IsFiniteSet(Gallery(q))
  BY GalleryIsFinite
<1>2. [sort |-> n, primary |-> n = 0] # NoImage
  BY <1>1, RowIsNotNull
<1>3. \A p \in Product \ {q} : Gallery(p)' = Gallery(p)
  BY DEF Gallery
<1>4. Gallery(q)' = Gallery(q) \cup {f} /\ f \notin Gallery(q)
  BY <1>2 DEF Gallery
<1>5. Cardinality(Gallery(q)') = n + 1
  BY <1>1, <1>4, FS_AddElement
<1>6. /\ image'[f] = [sort |-> n, primary |-> n = 0]
      /\ \A g \in File \ {f} : image'[g] = image[g]
  OBVIOUS
<1>7. \A p : Gallery(p) \subseteq File
  BY DEF Gallery
<1>8. ASSUME NEW p \in Product, p # q
      PROVE  /\ {image'[g].sort : g \in Gallery(p)'}
                  = 0..(Cardinality(Gallery(p)') - 1)
             /\ \A g \in Gallery(p)' : image'[g].primary <=> image'[g].sort = 0
             /\ \A g, h \in Gallery(p)' :
                   image'[g].sort = image'[h].sort => g = h
  <2>1. Gallery(p)' = Gallery(p) /\ \A g \in Gallery(p) : image'[g] = image[g]
    BY <1>3, <1>6, <1>7, <1>8 DEF Gallery
  <2>2. {image'[g].sort : g \in Gallery(p)'} = {image[g].sort : g \in Gallery(p)}
    BY <2>1
  <2>3. Cardinality(Gallery(p)') = Cardinality(Gallery(p))
    BY <2>1
  <2>4. {image[g].sort : g \in Gallery(p)} = 0..(Cardinality(Gallery(p)) - 1)
    BY <1>8 DEF IInv, GalleryIsOrdered
  <2>5. \A g \in Gallery(p)' : image'[g].primary <=> image'[g].sort = 0
    BY <2>1, <1>8 DEF IInv, GalleryIsOrdered
  <2>6. \A g, h \in Gallery(p)' : image'[g].sort = image'[h].sort => g = h
    BY <2>1, <1>8 DEF IInv, GalleryIsOrdered
  <2>. QED
    BY <2>2, <2>3, <2>4, <2>5, <2>6
<1>9. /\ {image'[g].sort : g \in Gallery(q)'} = 0..n
      /\ \A g \in Gallery(q)' : image'[g].primary <=> image'[g].sort = 0
      /\ \A g, h \in Gallery(q)' : image'[g].sort = image'[h].sort => g = h
  <2>1. /\ {image[g].sort : g \in Gallery(q)} = 0..(n - 1)
        /\ \A g \in Gallery(q) : image[g].primary <=> image[g].sort = 0
        /\ \A g, h \in Gallery(q) : image[g].sort = image[h].sort => g = h
    BY DEF IInv, GalleryIsOrdered
  <2>2. \A g \in Gallery(q) : image'[g] = image[g]
    BY <1>4, <1>6, <1>7
  <2>3. \A g \in Gallery(q) : image[g].sort \in 0..(n - 1)
    BY <2>1
  <2>4. \A g \in Gallery(q) : image[g].sort # n
    BY <1>1, <2>3
  <2>5. {image'[g].sort : g \in Gallery(q)'}
           = {image[g].sort : g \in Gallery(q)} \cup {n}
    <3>1. {image'[g].sort : g \in Gallery(q)'}
             = {image'[g].sort : g \in Gallery(q)} \cup {image'[f].sort}
      BY <1>4
    <3>2. image'[f].sort = n
      BY <1>6
    <3>3. {image'[g].sort : g \in Gallery(q)} = {image[g].sort : g \in Gallery(q)}
      BY <2>2
    <3>. QED
      BY <3>1, <3>2, <3>3
  <2>6. 0..(n - 1) \cup {n} = 0..n
    BY <1>1
  <2>7. {image'[g].sort : g \in Gallery(q)'} = 0..n
    BY <2>1, <2>5, <2>6
  <2>8. \A g \in Gallery(q)' : image'[g].primary <=> image'[g].sort = 0
    BY <1>4, <1>6, <2>1, <2>2
  <2>9. \A g, h \in Gallery(q)' : image'[g].sort = image'[h].sort => g = h
    BY <1>4, <1>6, <2>1, <2>2, <2>4
  <2>. QED
    BY <2>7, <2>8, <2>9
<1>10. Cardinality(Gallery(q)') - 1 = n
  BY <1>1, <1>5
<1>11. GalleryIsOrdered'
  BY <1>8, <1>9, <1>10 DEF GalleryIsOrdered
<1>. QED
  BY <1>3, <1>11

(* What a COMMIT writes, and to which rows.                                *)
LEMMA PublishWrites ==
  ASSUME IInv, NEW c \in Call, pc[c] = "commit", Publish(c)
  PROVE  /\ file[c] \in File
         /\ status' = [status EXCEPT ![file[c]] = "ready"]
         /\ status' \in [File -> {"absent", "pending", "ready"}]
         /\ avatar' \in [User -> File \cup {NoFile}]
         /\ image' \in [File -> Image \cup {NoImage}]
         /\ \A u \in User : avatar'[u] = IF u = OwnerOf[file[c]] THEN file[c]
                                                              ELSE avatar[u]
BY DEF IInv, TypeOK, Publish

(* A row it adds to a gallery is the next one, and its file had none.      *)
LEMMA PublishAppends ==
  ASSUME IInv, NEW c \in Call, pc[c] = "commit", Publish(c),
         NEW n, n = Cardinality(Gallery(OwnerOf[file[c]]))
  PROVE  \/ /\ image' = image
            /\ OwnerOf[file[c]] \in Product => image[file[c]] # NoImage
         \/ /\ OwnerOf[file[c]] \in Product /\ image[file[c]] = NoImage
            /\ image' = [g \in File |->
                            IF g = file[c] THEN [sort |-> n, primary |-> n = 0]
                                           ELSE image[g]]
<1>1. CASE link[c] = NoImage
  <2>1. image' = image
    BY <1>1 DEF IInv, TypeOK, Publish
  <2>2. OwnerOf[file[c]] \in Product => image[file[c]] # NoImage
    <3>1. [sort |-> n, primary |-> n = 0] # NoImage
      BY GalleryIsFinite, RowIsNotNull
    <3>. QED
      BY <1>1, <3>1 DEF IInv, LinkIsNext
  <2>. QED
    BY <2>1, <2>2
<1>2. CASE link[c] # NoImage
  <2>1. /\ OwnerOf[file[c]] \in Product /\ image[file[c]] = NoImage
        /\ link[c] = [sort |-> n, primary |-> n = 0]
    BY <1>2 DEF IInv, LinkIsNext
  <2>2. image' = [g \in File |->
                     IF g = file[c] THEN [sort |-> n, primary |-> n = 0]
                                    ELSE image[g]]
    BY <1>2, <2>1 DEF Publish
  <2>. QED
    BY <2>1, <2>2
<1>. QED
  BY <1>1, <1>2

(* No COMMIT changes a row that is there.                                  *)
LEMMA PublishKeepsImages ==
  ASSUME IInv, NEW c \in Call, pc[c] = "commit", Publish(c),
         NEW f \in File, image[f] # NoImage
  PROVE  image'[f] = image[f]
<1>1. CASE f = file[c]
  <2>1. link[c] = NoImage
    BY <1>1 DEF IInv, LinkIsNext
  <2>. QED
    BY <2>1 DEF Publish
<1>2. CASE f # file[c]
  BY <1>2 DEF Publish
<1>. QED
  BY <1>1, <1>2

(* A COMMIT, acknowledged or not.  The file and, if it is bound, its owner *)
(* are locked: what other transactions have seen is not what it changes.   *)
LEMMA PublishStep ==
  ASSUME IInv, NEW c \in Call, NEW r \in {"ok", "error"}, pc[c] = "commit",
         Publish(c), Finish(c, r), UNCHANGED <<upload, file>>,
         faults' \in 0..MaxFaults
  PROVE  IInv'
<1> DEFINE f == file[c]
           o == OwnerOf[f]
           n == Cardinality(Gallery(o))
<1> USE DEF upload
<1>1. TypeOK /\ (\A g \in File : OwnerOf[g] \in Owner)
  BY DEF IInv, Owner
<1>2. /\ pc'[c] = "done" /\ link'[c] = NoImage /\ result'[c] = r
      /\ \A d \in Call \ {c} : /\ pc'[d] = pc[d]
                               /\ link'[d] = link[d]
                               /\ result'[d] = result[d]
      /\ \A g \in File, d \in Call \ {c} : fileLock[g] = d => fileLock'[g] = d
      /\ \A p \in Owner, d \in Call \ {c} :
            ownerLock[p] = d => ownerLock'[p] = d
  BY <1>1, FinishFrees
<1>3. /\ f \in File
      /\ status' = [status EXCEPT ![f] = "ready"]
      /\ status' \in [File -> {"absent", "pending", "ready"}]
      /\ avatar' \in [User -> File \cup {NoFile}]
      /\ image' \in [File -> Image \cup {NoImage}]
      /\ \A u \in User : avatar'[u] = IF u = o THEN f ELSE avatar[u]
  BY PublishWrites
<1>4. \/ image' = image /\ (o \in Product => image[f] # NoImage)
      \/ /\ o \in Product /\ image[f] = NoImage
         /\ image' = [g \in File |->
                         IF g = f THEN [sort |-> n, primary |-> n = 0]
                                  ELSE image[g]]
  BY PublishAppends
<1>5. TypeOK'
  <2>1. file' \in [Call -> File] /\ stored' \in [File -> BOOLEAN]
           /\ url' \in [File -> {"none", "signing", "valid", "lost"}]
    BY <1>1 DEF TypeOK
  <2>. QED
    BY <1>1, <1>3, <2>1, FinishFrees DEF TypeOK
<1>6. \A g \in File : status'[g] = IF g = f THEN "ready" ELSE status[g]
  BY <1>1, <1>3 DEF TypeOK
<1>7. /\ \A g \in File \ {f} : image'[g] = image[g]
      /\ \A g \in File : image[g] # NoImage => image'[g] = image[g]
      /\ o \in Product => image'[f] # NoImage
      /\ o \notin Product => image' = image
  <2>1. CASE image' = image /\ (o \in Product => image[f] # NoImage)
    BY <2>1
  <2>2. CASE /\ o \in Product /\ image[f] = NoImage
             /\ image' = [g \in File |->
                             IF g = f THEN [sort |-> n, primary |-> n = 0]
                                      ELSE image[g]]
    <3>1. image'[f] # NoImage
      BY <1>3, <2>2, GalleryIsFinite, RowIsNotNull
    <3>. QED
      BY <1>3, <2>2, <3>1
  <2>. QED
    BY <1>4, <2>1, <2>2
<1>8. /\ GalleryIsOrdered'
      /\ \A p \in Product \ {o} : Gallery(p)' = Gallery(p)
  <2>1. CASE image' = image
    BY <2>1 DEF IInv, GalleryIsOrdered, Gallery
  <2>2. CASE image' # image
    BY <1>3, <1>4, <2>2, AppendKeepsOrder
  <2>. QED
    BY <2>1, <2>2
<1>9. ASSUME NEW d \in Call
      PROVE  HoldsLocks(d)' /\ SeenHolds(d)' /\ LinkIsNext(d)'
  <2>1. CASE d = c
    BY <1>2, <2>1 DEF HoldsLocks, SeenHolds, LinkIsNext
  <2>2. CASE d # c
    <3>1. file[d] \in File
      BY <1>1 DEF TypeOK
    <3>2. HoldsLocks(d)'
      BY <1>1, <1>2, <2>2, <3>1 DEF IInv, HoldsLocks
    <3>3. SeenHolds(d)'
      BY <1>2, <1>6, <2>2, <3>1 DEF IInv, SeenHolds
    <3>4. CASE pc[d] # "commit" \/ OwnerOf[file[d]] \notin Product
      <4>1. link[d] = NoImage
        BY <3>4 DEF IInv, LinkIsNext
      <4>2. LinkIsNext(d)'
        BY <1>2, <2>2, <3>4, <4>1 DEF LinkIsNext
      <4>. QED
        BY <3>2, <3>3, <4>2
    <3>5. CASE pc[d] = "commit" /\ OwnerOf[file[d]] \in Product
      <4>1. file[d] # f /\ OwnerOf[file[d]] # o
        BY <1>1, <2>2, <3>5 DEF IInv, HoldsLocks
      <4>2. /\ image'[file[d]] = image[file[d]]
            /\ Gallery(OwnerOf[file[d]])' = Gallery(OwnerOf[file[d]])
        BY <1>7, <1>8, <3>1, <3>5, <4>1 DEF Gallery
      <4>3. LinkIsNext(d)'
        BY <1>2, <2>2, <3>5, <4>2 DEF IInv, LinkIsNext
      <4>. QED
        BY <3>2, <3>3, <4>3
    <3>. QED
      BY <3>4, <3>5
  <2>. QED
    BY <2>1, <2>2
<1>10. UrlHasRow'
  <2>1. status[f] # "absent" /\ url[f] = "valid"
    BY DEF IInv, SeenHolds
  <2>. QED
    BY <1>6, <2>1 DEF IInv, UrlHasRow
<1>11. BoundWhenReady'
  <2>1. ASSUME NEW g \in File, OwnerOf[g] \in Product
        PROVE  status'[g] = "ready" <=> image'[g] # NoImage
    BY <1>6, <1>7, <2>1 DEF IInv, BoundWhenReady
  <2>2. ASSUME NEW g \in File, OwnerOf[g] \in User, status'[g] = "ready"
        PROVE  avatar'[OwnerOf[g]] # NoFile
    BY <1>3, <1>6, <2>2, UploadAssumption DEF IInv, BoundWhenReady
  <2>3. ASSUME NEW u \in User, avatar'[u] # NoFile
        PROVE  OwnerOf[avatar'[u]] = u /\ status'[avatar'[u]] = "ready"
    <3>1. CASE u = o
      BY <1>3, <1>6, <3>1
    <3>2. CASE u # o
      <4>1. avatar'[u] = avatar[u] /\ avatar[u] \in File
        BY <1>1, <1>3, <2>3, <3>2 DEF TypeOK
      <4>. QED
        BY <1>6, <2>3, <4>1 DEF IInv, BoundWhenReady
    <3>. QED
      BY <3>1, <3>2
  <2>. QED
    BY <2>1, <2>2, <2>3 DEF BoundWhenReady
<1>12. ReadyHasObject'
  <2>1. stored[f]
    BY DEF IInv, SeenHolds
  <2>. QED
    BY <1>6, <2>1 DEF IInv, ReadyHasObject
<1>13. AnswersAreTrue'
  <2> SUFFICES ASSUME NEW d \in Call, result'[d] = "ok"
               PROVE  LET q == OwnerOf[file[d]] IN
                      /\ status'[file[d]] = "ready"
                      /\ q \in Product => image'[file[d]] # NoImage
                      /\ q \in User => avatar'[q] # NoFile
    BY DEF AnswersAreTrue
  <2>0. file[d] \in File
    BY <1>1 DEF TypeOK
  <2>1. CASE d = c
    BY <1>3, <1>6, <1>7, <2>1, UploadAssumption
  <2>2. CASE d # c
    <3>1. /\ status[file[d]] = "ready"
          /\ OwnerOf[file[d]] \in Product => image[file[d]] # NoImage
          /\ OwnerOf[file[d]] \in User => avatar[OwnerOf[file[d]]] # NoFile
      BY <1>2, <2>2 DEF IInv, AnswersAreTrue
    <3>. QED
      BY <1>3, <1>6, <1>7, <2>0, <3>1, UploadAssumption
  <2>. QED
    BY <2>1, <2>2
<1>. QED
  BY <1>5, <1>8, <1>9, <1>10, <1>11, <1>12, <1>13 DEF IInv
-----------------------------------------------------------------------------
LEMMA FailStep ==
  ASSUME IInv, NEW c \in Call, CallFails(c)
  PROVE  IInv'
<1>1. faults' \in 0..MaxFaults
  BY UploadAssumption DEF CallFails, Fail, IInv, TypeOK
<1>2. CASE UNCHANGED tables
  BY <1>1, <1>2, RollbackStep DEF CallFails
<1>3. CASE pc[c] = "commit" /\ Publish(c)
  BY <1>1, <1>3, PublishStep DEF CallFails
<1>. QED
  BY <1>2, <1>3 DEF CallFails

LEMMA CrashStep ==
  ASSUME IInv, Crash
  PROVE  IInv'
<1> USE DEF Crash, tables, binding
<1>0. UNCHANGED <<status, avatar, image, stored, file>>
  OBVIOUS
<1>1. TypeOK'
  <2>1. faults' \in 0..MaxFaults
    BY UploadAssumption DEF Fail, IInv, TypeOK
  <2>2. /\ pc' \in [Call -> Label]
        /\ url' \in [File -> {"none", "signing", "valid", "lost"}]
        /\ result' \in [Call -> {"none", "ok", "refused", "forbidden",
                                 "missing", "error"}]
    BY DEF IInv, TypeOK, Label
  <2>3. /\ link' \in [Call -> Image \cup {NoImage}]
        /\ fileLock' \in [File -> Call \cup {NoCall}]
        /\ ownerLock' \in [Owner -> Call \cup {NoCall}]
    OBVIOUS
  <2>. QED
    BY <1>0, <2>1, <2>2, <2>3 DEF IInv, TypeOK
<1>2. ASSUME NEW c \in Call
      PROVE  HoldsLocks(c)' /\ SeenHolds(c)' /\ LinkIsNext(c)'
  <2>1. pc'[c] \in {"new", "done"} /\ link'[c] = NoImage
    OBVIOUS
  <2>. QED
    BY <2>1 DEF HoldsLocks, SeenHolds, LinkIsNext
<1>3. UrlHasRow'
  <2>1. \A f \in File : /\ url'[f] = "none" <=> url[f] = "none"
                        /\ url'[f] = "valid" <=> url[f] = "valid"
    OBVIOUS
  <2>. QED
    BY <1>0, <2>1 DEF IInv, UrlHasRow
<1>4. \A c \in Call : result'[c] = "ok" => result[c] = "ok"
  OBVIOUS
<1>5. GalleryIsOrdered' /\ BoundWhenReady' /\ ReadyHasObject' /\ AnswersAreTrue'
  BY <1>0, <1>4, TablesKept
<1>. QED
  BY <1>1, <1>2, <1>3, <1>5 DEF IInv

LEMMA StutterStep ==
  ASSUME IInv, UNCHANGED vars
  PROVE  IInv'
<1> USE DEF vars
<1>1. TypeOK'
  BY DEF IInv, TypeOK
<1>2. \A c \in Call : HoldsLocks(c)' /\ SeenHolds(c)'
  BY DEF IInv, HoldsLocks, SeenHolds
<1>3. \A c \in Call : LinkIsNext(c)'
  BY TablesKept DEF IInv, LinkIsNext, tables, binding
<1>4. UrlHasRow'
  BY DEF IInv, UrlHasRow
<1>5. GalleryIsOrdered' /\ BoundWhenReady' /\ ReadyHasObject' /\ AnswersAreTrue'
  BY TablesKept DEF tables, binding
<1>. QED
  BY <1>1, <1>2, <1>3, <1>4, <1>5 DEF IInv
-----------------------------------------------------------------------------
(* The inductive invariant holds in every reachable state.                 *)
THEOREM Invariance == Spec => []IInv
<1>1. Init => IInv
  BY InitIInv
<1>2. IInv /\ [Next]_vars => IInv'
  <2> SUFFICES ASSUME IInv, [Next]_vars PROVE IInv'
    OBVIOUS
  <2>1. CASE \E c \in Call : Advance(c)
    <3> PICK c \in Call : Advance(c)
      BY <2>1
    <3>1. CASE Receive(c)
      BY <3>1, ReceiveStep
    <3>2. CASE Lock(c)
      BY <3>2, LockStep
    <3>3. CASE Head(c) \/ Save(c)
      BY <3>3, HeadSaveStep
    <3>4. CASE Bind(c)
      BY <3>4, BindStep
    <3>5. CASE Link(c)
      BY <3>5, LinkStep
    <3>6. CASE Commit(c)
      <4>1. faults' \in 0..MaxFaults
        BY <3>6 DEF Commit, IInv, TypeOK
      <4>. QED
        BY <3>6, <4>1, PublishStep DEF Commit
    <3>. QED
      BY <3>1, <3>2, <3>3, <3>4, <3>5, <3>6 DEF Advance
  <2>2. CASE \E c \in Call : CallFails(c)
    BY <2>2, FailStep
  <2>3. CASE \E f \in File : Presign(f) \/ Sign(f) \/ SignFails(f) \/ Upload(f)
    BY <2>3, UploadStep
  <2>4. CASE Crash
    BY <2>4, CrashStep
  <2>5. CASE Terminating \/ UNCHANGED vars
    BY <2>5, StutterStep DEF Terminating
  <2>. QED
    BY <2>1, <2>2, <2>3, <2>4, <2>5 DEF Next
<1>. QED
  BY <1>1, <1>2, PTL DEF Spec

(* Every variable always holds a value of its type.                        *)
THEOREM TypeCorrect == Spec => []TypeOK
<1>1. IInv => TypeOK
  BY DEF IInv
<1>. QED
  BY <1>1, Invariance, PTL

(* Completions of any number of files, by any number of calls that overlap,*)
(* fail or repeat, number every gallery 0, 1, 2, ... (lines 325-358).      *)
THEOREM GalleriesAreOrdered == Spec => []GalleryIsOrdered
<1>1. IInv => GalleryIsOrdered
  BY DEF IInv
<1>. QED
  BY <1>1, Invariance, PTL

(* A file is ready exactly when it is bound, whatever fails in between     *)
(* (lines 125-127).                                                        *)
THEOREM ReadyIsBound == Spec => []BoundWhenReady
<1>1. IInv => BoundWhenReady
  BY DEF IInv
<1>. QED
  BY <1>1, Invariance, PTL

(* A file is ready only if its object was uploaded (lines 120-123).        *)
THEOREM ReadyIsStored == Spec => []ReadyHasObject
<1>1. IInv => ReadyHasObject
  BY DEF IInv
<1>. QED
  BY <1>1, Invariance, PTL

(* An answered completion is one that was committed (lines 96-130).        *)
THEOREM SuccessIsTrue == Spec => []AnswersAreTrue
<1>1. IInv => AnswersAreTrue
  BY DEF IInv
<1>. QED
  BY <1>1, Invariance, PTL
-----------------------------------------------------------------------------
(* No step moves an image of a gallery or takes it away, and no file that  *)
(* is ready is anything else later.                                        *)
LEMMA StableStep ==
  ASSUME IInv, [Next]_vars
  PROVE  \A f \in File :
            /\ image[f] # NoImage => image'[f] = image[f]
            /\ status[f] = "ready" => status'[f] = "ready"
<1>1. CASE UNCHANGED tables
  BY <1>1 DEF tables, binding
<1>2. CASE \E c \in Call : pc[c] = "commit" /\ Publish(c)
  <2> PICK c \in Call : pc[c] = "commit" /\ Publish(c)
    BY <1>2
  <2>1. \A f \in File : image[f] # NoImage => image'[f] = image[f]
    BY PublishKeepsImages
  <2>2. \A f \in File : status[f] = "ready" => status'[f] = "ready"
    BY PublishWrites DEF IInv, TypeOK
  <2>. QED
    BY <2>1, <2>2
<1>3. CASE \E f \in File : Presign(f) \/ SignFails(f)
  <2> PICK f \in File : Presign(f) \/ SignFails(f)
    BY <1>3
  <2>1. UNCHANGED image /\ status[f] # "ready"
           /\ \A g \in File \ {f} : status'[g] = status[g]
    BY DEF Presign, SignFails, binding, IInv, TypeOK, UrlHasRow
  <2>. QED
    BY <2>1
<1>4. \/ UNCHANGED tables
      \/ \E c \in Call : pc[c] = "commit" /\ Publish(c)
      \/ \E f \in File : Presign(f) \/ SignFails(f)
  <2>1. CASE \E c \in Call : Advance(c)
    BY <2>1 DEF Advance, Receive, Lock, Head, Save, Bind, Link, Commit
  <2>2. CASE \E c \in Call : CallFails(c)
    BY <2>2 DEF CallFails
  <2>3. CASE \E f \in File : Presign(f) \/ Sign(f) \/ SignFails(f) \/ Upload(f)
    BY <2>3 DEF Sign, Upload
  <2>4. CASE Crash
    BY <2>4 DEF Crash
  <2>5. CASE Terminating \/ UNCHANGED vars
    BY <2>5 DEF Terminating, vars, tables, binding
  <2>. QED
    BY <2>1, <2>2, <2>3, <2>4, <2>5 DEF Next
<1>. QED
  BY <1>1, <1>2, <1>3, <1>4

(* Completing again moves no image, takes none away and un-readies no file.*)
THEOREM CompletingIsStable == Spec => GalleryIsStable
<1>1. IInv /\ [Next]_vars =>
         [\A f \in File :
             /\ image[f] # NoImage => image'[f] = image[f]
             /\ status[f] = "ready" => status'[f] = "ready"]_vars
  BY StableStep
<1>. QED
  BY <1>1, Invariance, PTL DEF Spec, GalleryIsStable
=============================================================================
