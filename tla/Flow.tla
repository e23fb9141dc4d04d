-------------------------------- MODULE Flow --------------------------------
(***************************************************************************)
(* Structured control flow on a body kept as a flat list p of entries with *)
(* fields op and depth: what opens a block, what divides it and its end    *)
(* have the same depth, what is inside is one deeper.                      *)
(***************************************************************************)
EXTENDS Naturals, Sequences, FiniteSetsExt

Openers == {"if", "loop", "for", "match", "ifExpr"}
Dividers == {"else", "arm", "any", "end"}

(* Where the part of the block that i starts is over, and the whole block. *)
Match(p, i) == Min({j \in i + 1 .. Len(p) :
  p[j].op \in Dividers /\ p[j].depth = p[i].depth})
EndOf(p, i) == Min({j \in i .. Len(p) : p[j].op = "end" /\ p[j].depth = p[i].depth})
Opener(p, j) == Max({i \in 1 .. j - 1 :
  p[i].op \in Openers /\ p[i].depth = p[j].depth})

(* The loop that a break or a continue at i belongs to. *)
Innermost(p, i) == Max({k \in 1 .. i - 1 :
  p[k].op \in {"loop", "for"} /\ Match(p, k) > i})

(* Where execution may go after entry i, first the place where the         *)
(* condition holds.  A value ends its arm; an arm of a match that is not   *)
(* taken leads to the next one.                                            *)
Successors(p, i) ==
  LET s == p[i] IN
  CASE s.op \in {"if", "for", "ifExpr"} -> <<i + 1, Match(p, i) + 1>>
    [] s.op = "arm"      -> <<i + 1, Match(p, i)>>
    [] s.op = "else"     -> <<EndOf(p, i) + 1>>
    [] s.op = "value"    -> <<EndOf(p, i + 1) + 1>>
    [] s.op = "end"      -> IF p[Opener(p, i)].op \in {"loop", "for"}
                            THEN <<Opener(p, i)>> ELSE <<i + 1>>
    [] s.op = "break"    -> <<Match(p, Innermost(p, i)) + 1>>
    [] s.op = "continue" -> <<Innermost(p, i)>>
    [] s.op = "return"   -> <<Len(p) + 1>>
    [] OTHER             -> <<i + 1>>

(* j is in a block around i, and before it. *)
Encloses(p, j, i) == \A k \in j + 1 .. i - 1 : p[k].depth >= p[j].depth
=============================================================================
