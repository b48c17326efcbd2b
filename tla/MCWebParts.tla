------------------------------ MODULE MCWebParts -------------------------------
(***************************************************************************)
(* A small instance of WebParts: two dialogs, for an item with and one     *)
(* without lots; two texts to import; two barcodes; a picker that searches *)
(* from two letters on; two fields of the page and two of a dialog, two    *)
(* heights of the keyboard; seven links, a submenu and a help menu of two; *)
(* a message and an error; three sections, two known anchors and one that  *)
(* is not; two users of one browser, of whom one hides one card, at every  *)
(* page whose cards differ.                                                *)
(***************************************************************************)
EXTENDS WebParts

BothOrOne == [t \in Words |-> CASE t \in {"", "ab"} -> Ids [] t = "ac" -> {"j"} [] OTHER -> {}]
SectionOf == [a \in {"iv-access-title", "iv-license"} |->
                IF a = "iv-license" THEN "license" ELSE "access"]
================================================================================
