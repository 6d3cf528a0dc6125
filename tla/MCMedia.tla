------------------------------ MODULE MCMedia -------------------------------
(* Instances of MediaAssets for TLC. *)
EXTENDS MediaAssets, TLC

CONSTANTS a1, a2, c1, c2

Upload1(use, creator) == a1 :> [use |-> use, creator |-> creator]
Upload2(use, creator) == a2 :> [use |-> use, creator |-> creator]

\* What two uploads are for: the file of a row and its replacement or a second one, one
\* of two kinds of category that compete for an image, files of different rows. One
\* creator makes both, whose quota they meet (proofs are not counted); but a driver is
\* created with two files at once.
TwoUploads ==
    { Upload1(x[1], c1) @@ Upload2(x[2], c1) : x \in {
        <<"CATEGORY_IMAGE", "CATEGORY_IMAGE">>,
        <<"PRODUCT_IMAGE", "PRODUCT_IMAGE">>,
        <<"STORE_LOGO", "PROOF">> } }
    \cup { Upload1("DRIVER_PHOTO", c1) @@ Upload2("DRIVER_DOCUMENT", c2) }

=============================================================================
