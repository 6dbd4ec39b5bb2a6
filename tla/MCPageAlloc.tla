---------------------------- MODULE MCPageAlloc ----------------------------
(***************************************************************************)
(* Ten granules of two pages.  The hooked function is in an image of three *)
(* or five pages; allocations of one, two and three pages, also such as    *)
(* consist of two regions, lie below it, and such of one region above it.  *)
(* From a function in the last granule of its image the upward search      *)
(* comes to what lies behind the image, from any other it looks into the   *)
(* image first.                                                            *)
(***************************************************************************)
EXTENDS PageAlloc

Part(base, first, size) == [base |-> base, first |-> first, size |-> size]
Whole(base, size) == Part(base, base, size)

Image == Whole(10, 3)

BelowImage == {{}, {Whole(8, 2), Whole(4, 1)}, {Whole(8, 1), Part(4, 4, 1), Part(4, 5, 3)},
               {Whole(2, 8)}, {Whole(4, 3), Whole(8, 2), Whole(2, 1)}}

AboveImage == {{}, {Whole(14, 1), Whole(16, 1)}, {Whole(14, 6)}}

\* Images as the loader maps them: headers, code and data are regions of one
\* allocation.
MappedImages == {{Part(10, 10, 1), Part(10, 11, 4)}, {Part(10, 10, 4), Part(10, 14, 1)}}

MCLayouts ==
  {{Image} \cup b \cup a : b \in BelowImage, a \in AboveImage}
    \cup {i \cup b : i \in MappedImages, b \in {{}, {Whole(2, 8)}}}
=============================================================================
