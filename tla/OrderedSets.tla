---------------------------- MODULE OrderedSets -----------------------------
(***************************************************************************)
(* Sets that remember the order in which their elements were added: the    *)
(* access list of the template cache, and the pools a price source         *)
(* watches (a JavaScript Set).                                             *)
(***************************************************************************)
EXTENDS Naturals, Sequences

(* What is left of s once the elements of old are deleted. *)
Unlisted(s, old) ==
    LET kept[i \in 0..Len(s)] ==
            IF i = 0 THEN << >> ELSE IF s[i] \in old THEN kept[i - 1] ELSE Append(kept[i - 1], s[i])
    IN  kept[Len(s)]
=============================================================================
