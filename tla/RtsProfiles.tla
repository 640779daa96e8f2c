------------------------------ MODULE RtsProfiles ------------------------------
(***************************************************************************)
(* The scenario values that a board gives to the run-time library of a     *)
(* profile: RTSProfiles of rts_sources/profiles.py, before its loop over   *)
(* the dependencies, and what amend_rts of the board changes.              *)
(*                                                                         *)
(* Scenario values are a function whose domain is the set of the variables *)
(* that are set.  Two variables that no directory depends on (the code     *)
(* sets Add_Value_Util and Add_Traceback) are left out.                    *)
(***************************************************************************)
EXTENDS RtsSources, RtsRules, RtsBoards

YesNo(condition) == IF condition THEN "yes" ELSE "no"

SetAll(switches, value) == [v \in switches |-> value]

Trait(board, trait) == trait \in board.traits

----------------------------------------------------------------------------

LightSwitches ==
  {"Add_Arith64", "Add_Case_Util", "Add_Exponent_Float", "Add_Exponent_Int",
   "Add_Exponent_LL_Int", "Add_Exponent_Modular", "Add_Float_Util",
   "Add_Pack", "Add_Image_Enum", "Add_Image_Int", "Add_Image_LL_Int",
   "Add_Image_Based_Int", "Add_Image_LL_Based_Int", "Add_Image_Decimal",
   "Add_Image_LL_Decimal", "Add_Image_Fixed", "Add_Image_LL_Fixed",
   "Add_Image_Float", "Add_Image_Char", "Add_Image_Util", "Add_Value_Spec",
   "Add_Value_LL_Spec", "Add_Value_Bool", "Add_Value_Enum",
   "Add_Value_Decimal", "Add_Value_LL_Decimal", "Add_Value_Fixed",
   "Add_Value_LL_Fixed", "Add_Value_Float", "Add_Value_Int",
   "Add_Value_LL_Int", "Add_Value_Char"}

WideSwitches ==
  {"Add_Exponent_LLL_Int", "Add_Image_LLL_Int", "Add_Image_LLL_Based_Int",
   "Add_Image_LLL_Decimal", "Add_Image_LLL_Fixed", "Add_Value_LLL_Spec",
   "Add_Value_LLL_Int", "Add_Value_LLL_Decimal", "Add_Value_LLL_Fixed",
   "Add_Pack64", "Add_Arith128"}

(* The families of the processors the builder knows: any other one makes   *)
(* it exit.  A native target ("") has no family.                           *)
Families ==
  [p \in {"aarch64", "morello"} |-> "aarch64"] @@
  [p \in {"leon", "leon3"} |-> "leon"] @@
  [p \in {"powerpc", "ppc"} |-> "powerpc"] @@
  [p \in {"arm", "x86", "x86_64", "riscv32", "riscv64"} |-> p] @@
  "ppc64" :> "powerpc64"

FusedFamilies == {"aarch64", "powerpc", "powerpc64", "riscv32", "riscv64"}

KnownCPU(board) == board.cpu = "" \/ board.cpu \in DOMAIN Families

CPUScenarios(board) ==
  IF board.cpu = "" THEN Always
  ELSE LET family == Families[board.cpu]
       IN  [CPU_Family |-> family,
            Has_FMA |-> YesNo(family \in FusedFamilies /\ HasFPU(board))]

MathLib(board) ==
  CASE FullFPU \subseteq board.traits -> "hardfloat"
    [] board.traits \cap FullFPU = {"sp"} -> "hardfloat_sp"
    [] board.traits \cap FullFPU = {"dp"} -> "hardfloat_dp"
    [] OTHER -> "softfloat"

MemoryScenarios(board) ==
  IF board.os = "pikeos" THEN Always
  ELSE [Memory_Profile |->
          CASE Trait(board, "small") -> "small"
            [] ~Trait(board, "small") /\ Trait(board, "huge") -> "huge"
            [] OTHER -> "large"]

light_scenarios(board, profile) ==
  LET wide == Trait(board, "64bit")
      options ==
        [RTS_Profile |-> profile,
         Compiler_Backend |-> "gcc",
         Has_FPU |-> YesNo(HasFPU(board)),
         Add_Command_Line |-> YesNo(Trait(board, "args")),
         Has_libc |-> YesNo(HasLibc(board, profile)),
         Has_CHERI |-> YesNo(Trait(board, "cheri")),
         Certifiable_Packages |-> YesNo(Trait(board, "certpkgs")),
         Add_Math_Lib |-> MathLib(board),
         Text_IO |-> IF Trait(board, "semihosting") THEN "semihosting"
                     ELSE "serial",
         Target_Word_Size |-> IF wide THEN "64" ELSE "32"]
  IN  options @@ CPUScenarios(board) @@ MemoryScenarios(board)
        @@ SetAll(LightSwitches \cup (IF wide THEN WideSwitches ELSE {}), "yes")

light_tasking_scenarios(board, profile) ==
  LET timing ==
        [RTS_Profile |-> "light-tasking",
         Timer |-> IF Trait(board, "timer64") THEN "timer64" ELSE "timer32",
         Has_Compare_And_Swap |-> YesNo(~Trait(board, "nocas"))]
      version == IF board.os = "pikeos"
                 THEN [Pikeos_Version |-> board.pikeos_version] ELSE Always
  IN  Update(light_scenarios(board, profile), timing @@ version)

embedded_scenarios(board) ==
  LET features ==
        SetAll({"Add_Complex_Type_Support", "Add_Image_Wide_Char",
                "Add_Streams", "Add_Value_Wide_Char"}, "yes")
      clib == IF board.os = "pikeos" THEN Always
              ELSE [Add_C_Integration |-> "newlib"]
  IN  Update(light_tasking_scenarios(board, "embedded"),
             [RTS_Profile |-> "embedded", Certifiable_Packages |-> "no"]
               @@ features @@ clib)

cert_scenarios(board) ==
  LET packs == IF Trait(board, "64bit") THEN {"Add_Pack", "Add_Pack64"}
               ELSE {"Add_Pack"}
  IN  Update(light_scenarios(board, "cert"),
             SetAll(packs, "no") @@ [Add_IO_Exceptions |-> "yes"])

(* What Target.__init__ starts the run-time library of a profile with: the *)
(* scenarios of its profile, amended for the real-time processes of        *)
(* VxWorks.                                                                *)
BaseScenarios(board, profile) ==
  CASE profile = "light" -> light_scenarios(board, "light")
    [] profile = "light-tasking" ->
         light_tasking_scenarios(board, "light-tasking")
    [] profile = "embedded" -> embedded_scenarios(board)
    [] profile = "cert" -> cert_scenarios(board)

amend_rts(board, vals) ==
  IF Trait(board, "rtp") THEN Update(vals, [Is_RTP |-> "yes"]) ELSE vals
=============================================================================
