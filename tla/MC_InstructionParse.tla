------------------------- MODULE MC_InstructionParse -------------------------
(* InstructionParse with the variant sets of InstructionVariants, for TLC. *)
EXTENDS InstructionParse, InstructionVariants
====
