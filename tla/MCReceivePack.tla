----------------------------- MODULE MCReceivePack -----------------------------
(* Instances of ReceivePack for TLC. *)
EXTENDS ReceivePack, TLC

CONSTANTS c1, c2, c3, f1, f2, p

\* A fork: c2 and c3 follow c1.  c2 adds a plain file, c3 an LFS pointer.
ForkParents == c1 :> {} @@ c2 :> {c1} @@ c3 :> {c1}
ForkFiles == c1 :> {f1} @@ c2 :> {f1, f2} @@ c3 :> {f1, p}

\* Whole and thin packs, and packs that lack a file or a commit.
ForkPacks == {{c1, f1}, {c2, f2}, {c3, p}, {c3}}
================================================================================
