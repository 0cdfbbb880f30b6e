----------------------------- MODULE MCPlanning -----------------------------
(***************************************************************************)
(* Planning for TLC: the names the program knows, and names that match two *)
(* word lists or none.                                                     *)
(***************************************************************************)
EXTENDS Planning, TLC

MCWordsOf ==
  ("read_file" :> {"read"}) @@ ("list_tools" :> {"read"}) @@ ("run_shell" :> {"shell"})
    @@ ("get_terminal" :> {"read", "shell"}) @@ ("read_http" :> {"read", "network"})
    @@ ("search_and_edit" :> {"read", "write"}) @@ ("mystery" :> {})
MCTools == DOMAIN MCWordsOf
=============================================================================
