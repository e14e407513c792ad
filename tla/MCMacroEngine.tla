--------------------------- MODULE MCMacroEngine ---------------------------
(* Four macros: a keyed action in nested handlers, a loop with a stop, a    *)
(* try within a retry, and one that asks for confirmation.                 *)
EXTENDS MacroEngine

CONSTANTS k1

Do(key) == [type |-> "act", key |-> key]
Simple(type) == [type |-> type]
RetryOf(n, do) == [type |-> "retry", attempts |-> n, do |-> do]
TryOf(do, finally) == [type |-> "try", do |-> do, finally |-> finally]
IfOf(then, else) == [type |-> "if", then |-> then, else |-> else]
LoopOf(n, do) == [type |-> "loop", cap |-> n, do |-> do]
EachOf(do) == [type |-> "for_each", do |-> do]

Macro(name, triggered, require_confirm, actions) ==
  [name |-> name, triggered |-> triggered, require_confirm |-> require_confirm,
   actions |-> actions]

MCMacros == {
  Macro("nested", FALSE, FALSE,
    <<TryOf(<<RetryOf(2, <<Simple("plain"), Do(k1), Do(NoKey)>>)>>, <<Do(NoKey)>>),
      Do(NoKey)>>),
  Macro("looping", TRUE, FALSE,
    <<LoopOf(2, <<IfOf(<<Do(k1)>>, <<Simple("stop")>>)>>), EachOf(<<Do(NoKey)>>)>>),
  Macro("retrying", FALSE, FALSE,
    <<RetryOf(2, <<TryOf(<<Do(k1)>>, <<>>), Do(NoKey)>>), RetryOf(0, <<Do(k1)>>),
      Simple("confirm")>>),
  Macro("careful", TRUE, TRUE, <<Do(NoKey)>>)}

RECURSIVE BlocksIn(_)
BlocksIn(b) ==
  {b} \cup IF b = <<>> THEN {}
           ELSE BlocksIn(Tail(b)) \cup
                UNION {BlocksIn(Head(b)[f]) :
                         f \in DOMAIN Head(b) \cap {"do", "then", "else", "finally"}}

MCBlocks == UNION {BlocksIn(m.actions) : m \in MCMacros}
=============================================================================
