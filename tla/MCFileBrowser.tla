---------------------------- MODULE MCFileBrowser ----------------------------
(* FileBrowser for TLC, with a tree in which lists get shorter on the way    *)
(* down and up, and one of them is empty.                                    *)
EXTENDS FileBrowser, TLC

CONSTANTS f1, f2, top, sub, empty

MCContents ==
  top :> <<f1, empty, sub>> @@ sub :> <<f2>> @@ empty :> <<>>
=============================================================================
