---------------------------- MODULE MCFileUpload ----------------------------
(* Two images of one product, an avatar, an attachment of an order, and a  *)
(* file for a user who does not exist; the calls are made by the avatar's  *)
(* user and by a member of staff.                                          *)
EXTENDS FileUpload, TLC

CONSTANTS i1, i2, av, att, ghost     \* files

Owners == (i1 :> "shirt") @@ (i2 :> "shirt") @@ (av :> "ann") @@ (att :> "order")
          @@ (ghost :> "nobody")
Users == {"ann", "root"}
Products == {"shirt"}
Admins == {"root"}
OwnersThere == {"shirt", "ann", "root", "order"}
=============================================================================
