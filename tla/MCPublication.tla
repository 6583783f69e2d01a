--------------------------- MODULE MCPublication ---------------------------
(* Instances of Publication for TLC. *)
EXTENDS PublicationInv, TLC

CONSTANTS accounts, admin, users, vendors

MCDatabases == {accounts, admin, users, vendors}
MCRank == (accounts :> 1) @@ (admin :> 2) @@ (users :> 3) @@ (vendors :> 4)

(* The initial sync of two databases; a transaction over two databases,    *)
(* one of them new; a no-op; a partial transaction that affects no         *)
(* database yet; a dropDatabase; and one of a database that is missing.    *)
MCAffected == <<{accounts, admin}, {accounts, users}, {}, {}, {users}, {vendors}>>
MCNoop == {3}
MCMapped == {1, 2, 4}
MCDrops == {5, 6}

(* The same entries when the initial sync finds every database. *)
MCAffectedOld == <<MCDatabases, {accounts, users}, {}, {}, {users}, {vendors}>>

(* Two entries on special namespaces of the admin database among others:   *)
(* an abort of one takes admin back to its last commit, that of the        *)
(* initial sync or that of the first of the two.                           *)
MCAffectedAdmin ==
  <<{accounts, admin}, {accounts, admin}, {}, {accounts}, {admin, users}, {accounts}>>
MCMappedAdmin == {3}

(* Database vendors is dropped before anything was written to it. *)
MCAffectedMissing == <<{accounts, admin}, {vendors}, {accounts}>>
MCDropsMissing == {2}

MCNone == {}
=============================================================================
