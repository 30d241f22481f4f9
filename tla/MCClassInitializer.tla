-------------------------- MODULE MCClassInitializer --------------------------
(***************************************************************************)
(* An instance of ClassInitializer: class B and its subclass S, which      *)
(* implements the interface I; I has no default methods, its base          *)
(* interface J has. The cctor of B uses S, so that threads can recurse     *)
(* into classes they initialize and can wait for each other in a circle.   *)
(***************************************************************************)
EXTENDS ClassInitializer

CONSTANTS B, S, I, J

MCClasses == {B, S, I, J}
MCInterfaces == {I, J}
MCDefaultMethods == {J}
MCBase == [c \in MCClasses |-> IF c = S THEN B ELSE NoClass]
MCIfacesOf == [c \in MCClasses |-> CASE c = S -> <<I>> [] c = I -> <<J>> [] OTHER -> <<>>]
MCUses == [c \in MCClasses |-> CASE c = B -> {S} [] OTHER -> {}]
MCEntries == {B, S, J}
===============================================================================
