---------------------------- MODULE MRUWindowList ---------------------------
(***************************************************************************)
(* The most-recently-used list of activated windows                        *)
(* (miral/mru_window_list.cpp): a sequence, the newest window last.        *)
(*                                                                         *)
(* Which windows are visible is Mir's business and is passed in as a set.  *)
(* The same Erase serves the vectors of children and of an application's   *)
(* windows, which use the same erase-remove idiom.                         *)
(***************************************************************************)
EXTENDS Naturals, Sequences, FiniteSetsExt, Functions

CONSTANT NoWindow     \* miral::Window{}, the null window

(***************************************************************************)
(* std::remove drops every occurrence.  The lists never hold a window      *)
(* twice (see NoDuplicates in BasicWindowManager), so at most one position *)
(* goes and the rest moves up.                                             *)
(***************************************************************************)
Erase(list, w) ==
    IF w \in Range(list)
    THEN LET gone == CHOOSE i \in DOMAIN list : list[i] = w
         IN  [i \in 1..(Len(list) - 1) |-> IF i < gone THEN list[i] ELSE list[i + 1]]
    ELSE list

Push(list, w) == Append(Erase(list, w), w)

\* The newest window of the list that is in the set ws, NoWindow if none is.
Newest(list, ws) ==
    LET hits == {i \in DOMAIN list : list[i] \in ws}
    IN  IF hits = {} THEN NoWindow ELSE list[Max(hits)]

\* MRUWindowList::top: the newest visible window.
Top(list, visible) == Newest(list, visible)
=============================================================================
