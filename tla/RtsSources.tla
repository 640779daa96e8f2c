------------------------------ MODULE RtsSources ------------------------------
(***************************************************************************)
(* The shared sources of the run-time libraries: the scenario variables,   *)
(* and the directories of rts_sources/sources.py, in the order of the      *)
(* dictionary, with the condition under which a directory belongs to a     *)
(* run-time, the scenario values it then requires and the source profiles  *)
(* it has files for.                                                       *)
(*                                                                         *)
(* Of the files, a directory lists those that several directories install  *)
(* under one name for a same source profile: <<name, variant, profiles>>   *)
(* is name__variant of the sources ("std" and "hie" are the files that     *)
(* have no variant in their names).  Files that always come together, a    *)
(* body and its specification or a unit and those that follow its choice,  *)
(* are represented by the first of them.                                   *)
(***************************************************************************)
EXTENDS Naturals, Sequences, TLC

(* Optional features: "no" is the first value, hence the default. *)
Switches ==
  {"Is_RTP", "Has_FPU", "Has_FMA", "Has_libc", "Has_CHERI",
   "Certifiable_Packages", "Add_Complex_Type_Support", "Add_Arith64",
   "Add_Arith128", "Add_Image_Enum", "Add_Image_Int", "Add_Image_LL_Int",
   "Add_Image_LLL_Int", "Add_Image_Based_Int", "Add_Image_LL_Based_Int",
   "Add_Image_LLL_Based_Int", "Add_Image_Decimal", "Add_Image_LL_Decimal",
   "Add_Image_LLL_Decimal", "Add_Image_Fixed", "Add_Image_LL_Fixed",
   "Add_Image_LLL_Fixed", "Add_Image_Float", "Add_Image_Char",
   "Add_Image_Wide_Char", "Add_Value_Spec", "Add_Value_LL_Spec",
   "Add_Value_LLL_Spec", "Add_Value_Bool", "Add_Value_Enum",
   "Add_Value_Int", "Add_Value_LL_Int", "Add_Value_LLL_Int",
   "Add_Value_Decimal", "Add_Value_LL_Decimal", "Add_Value_LLL_Decimal",
   "Add_Value_Fixed", "Add_Value_LL_Fixed", "Add_Value_LLL_Fixed",
   "Add_Value_Float", "Add_Value_Char", "Add_Value_Wide_Char",
   "Add_Exponent_Float", "Add_Exponent_Int", "Add_Exponent_LL_Int",
   "Add_Exponent_LLL_Int", "Add_Exponent_Modular", "Add_Streams",
   "Add_Pack", "Add_Pack64", "Add_Case_Util", "Add_Command_Line",
   "Add_Float_Util", "Add_Image_Util", "Add_IO_Exceptions",
   "Add_Value_Utils"}

(* The other variables, with their values; the first one is the default. *)
Selections ==
  [RTS_Profile |-> <<"light", "light-tasking", "embedded", "cert">>,
   Compiler_Backend |-> <<"gcc", "llvm">>,
   CPU_Family |-> <<"arm", "aarch64", "leon", "powerpc", "powerpc64", "x86",
        "x86_64", "riscv32", "riscv64">>,
   Target_Word_Size |-> <<"32", "64">>,
   Has_Compare_And_Swap |-> <<"yes", "no">>,
   Memory_Profile |-> <<"small", "large", "huge">>,
   Timer |-> <<"n/a", "timer32", "timer64">>,
   Text_IO |-> <<"serial", "semihosting">>,
   Add_C_Integration |-> <<"no", "ada_clib", "newlib">>,
   Pikeos_Version |-> <<"pikeos3", "pikeos4", "pikeos4.2", "pikeos5">>,
   Add_Math_Lib |-> <<"no", "softfloat", "hardfloat", "hardfloat_dp",
        "hardfloat_sp">>]

Scenarios == [v \in Switches |-> <<"no", "yes">>] @@ Selections

SourceProfiles == {"bb", "deos", "freertos", "pikeos", "vx7r2cert", "qnx"}

----------------------------------------------------------------------------

(* A rule gives for each of its variables the admitted values. *)
Always == [v \in {} |-> {}]

Yes == {"yes"}

No == {"no"}

Except(var, excluded) ==
  {Scenarios[var][i] : i \in DOMAIN Scenarios[var]} \ excluded

Everywhere == SourceProfiles

Dir(path, when, needs, of, files) ==
  [path |-> path, when |-> when, needs |-> needs, of |-> of, files |-> files]

(* A directory that one switch selects, with the switches it requires. *)
AllYes(switches) == [v \in switches |-> Yes]

Feature(path, switches, required) ==
  Dir(path, AllYes(switches), AllYes(required), Everywhere, {})

(* What every run-time library has. *)
CommonDirs == <<
  Dir(<<"common">>, Always, Always, Everywhere,
      {<<"a-textio.adb", "c", {"freertos"}>>,
       <<"a-textio.adb", "deos", {"deos"}>>,
       <<"a-textio.adb", "qnx", {"qnx"}>>,
       <<"a-textio.adb", "vxworks7cert", {"vx7r2cert"}>>,
       <<"g-io.ads", "c", {"deos"}>>, <<"g-io.ads", "std", {"vx7r2cert"}>>,
       <<"g-io.ads", "zfp", {"bb", "freertos", "pikeos", "qnx"}>>,
       <<"s-parame.adb", "hie", {"pikeos"}>>,
       <<"s-parame.ads", "large", {"pikeos"}>>}),
  Dir(<<"common", "32">>, [Target_Word_Size |-> {"32"}], Always, Everywhere,
      {<<"i-cexten.ads", "std", Everywhere>>}),
  Dir(<<"common", "64">>, [Target_Word_Size |-> {"64"}], Always, Everywhere,
      {<<"i-cexten.ads", "128", Everywhere>>}),
  Feature(<<"common", "cheri">>, {"Has_CHERI"}, {}) >>

(* The Light and Light-Tasking profiles. *)
LightDirs == <<
  Dir(<<"light">>, [RTS_Profile |-> {"light", "light-tasking", "cert"}],
      Always, Everywhere,
      {<<"a-elchha.adb", "traceback", {"vx7r2cert", "qnx"}>>,
       <<"a-elchha.adb", "zfp", {"bb", "freertos", "pikeos"}>>,
       <<"a-strsup.adb", "light", Everywhere>>,
       <<"s-traceb.adb", "zfp", {"vx7r2cert"}>>}),
  Dir(<<"light", "exceptions">>,
      [RTS_Profile |-> Except("RTS_Profile", {"embedded", "cert"})], Always,
      Everywhere,
      {<<"a-elchha.ads", "zfp", Everywhere>>,
       <<"a-except.adb", "zfp", Everywhere>>}),
  Dir(<<"light", "non-tasking">>, [RTS_Profile |-> {"light", "cert"}], Always,
      {"bb", "deos", "freertos", "pikeos", "vx7r2cert", "qnx"},
      {<<"a-textio.adb", "pikeos-light", {"pikeos"}>>,
       <<"s-parame.ads", "zfp_huge", {"vx7r2cert", "qnx"}>>}),
  Dir(<<"light", "arm">>,
      [CPU_Family |-> {"arm"}, RTS_Profile |-> {"light", "light-tasking"}],
      Always, {"vx7r2cert", "qnx"},
      {<<"s-traceb.adb", "dummy", {"qnx"}>>,
       <<"s-tracon.adb", "zfp-arm", {"vx7r2cert"}>>}),
  Dir(<<"light", "aarch64">>,
      [CPU_Family |-> {"aarch64"}, RTS_Profile |-> {"light", "light-tasking"}],
      Always, {"vx7r2cert", "qnx"},
      {<<"s-traceb.adb", "zfp", {"qnx"}>>,
       <<"s-tracon.adb", "zfp-aarch64", {"vx7r2cert", "qnx"}>>}),
  Dir(<<"light", "ppc">>,
      [CPU_Family |-> {"powerpc"}, RTS_Profile |-> {"light", "light-tasking"}],
      Always, {"vx7r2cert"},
      {<<"s-tracon.adb", "zfp-ppc", {"vx7r2cert"}>>}),
  Dir(<<"light", "ppc64">>,
      [CPU_Family |-> {"powerpc64"},
       RTS_Profile |-> {"light", "light-tasking"}], Always, {"vx7r2cert"},
      {<<"s-tracon.adb", "zfp-ppc64", {"vx7r2cert"}>>}),
  Dir(<<"light", "x86">>,
      [CPU_Family |-> {"x86"}, RTS_Profile |-> {"light", "light-tasking"}],
      Always, {"vx7r2cert"},
      {<<"s-tracon.adb", "zfp-x86", {"vx7r2cert"}>>}),
  Dir(<<"light", "x86_64">>,
      [CPU_Family |-> {"x86_64"}, RTS_Profile |-> {"light", "light-tasking"}],
      Always, {"vx7r2cert"},
      {<<"s-tracon.adb", "zfp-x86_64", {"vx7r2cert"}>>}),
  Dir(<<"light-tasking">>, [RTS_Profile |-> {"light-tasking"}], Always,
      Everywhere,
      {<<"s-init.ads", "light", {"vx7r2cert", "qnx"}>>,
       <<"s-parame.adb", "qnx", {"qnx"}>>,
       <<"s-parame.adb", "vxworks", {"vx7r2cert"}>>,
       <<"s-parame.ads", "std", {"qnx"}>>,
       <<"s-parame.ads", "vxworks7cert", {"vx7r2cert"}>>}),
  Feature(<<"command_line">>, {"Add_Command_Line"}, {}) >>

(* The Embedded profile. *)
FullDirs == <<
  Dir(<<"full">>, [RTS_Profile |-> {"embedded"}], Always, Everywhere,
      {<<"a-calclo.adb", "bb", {"bb"}>>,
       <<"a-elchha.adb", "full", Everywhere>>,
       <<"a-elchha.ads", "std", Everywhere>>,
       <<"a-except.adb", "std", Everywhere>>,
       <<"a-strsup.adb", "std", Everywhere>>,
       <<"s-except.ads", "std", Everywhere>>,
       <<"s-init.ads", "hie", Everywhere>>,
       <<"s-memory.adb", "xi", Everywhere>>}),
  Dir(<<"full", "gcc">>,
      [RTS_Profile |-> {"embedded"}, Compiler_Backend |-> {"gcc"}], Always,
      Everywhere, {}),
  Dir(<<"full", "32">>,
      [RTS_Profile |-> {"embedded"}, Target_Word_Size |-> {"32"}], Always,
      Everywhere,
      {<<"a-decima.ads", "std", Everywhere>>}),
  Dir(<<"full", "64">>,
      [RTS_Profile |-> {"embedded"}, Target_Word_Size |-> {"64"}], Always,
      Everywhere,
      {<<"a-decima.ads", "128", Everywhere>>}) >>

(* The memory allocators. *)
AllocDirs == <<
  Dir(<<"alloc", "c">>,
      [Has_libc |-> Yes, RTS_Profile |-> Except("RTS_Profile", {"embedded"})],
      Always, Everywhere,
      {<<"s-memory.adb", "libc", Everywhere>>}),
  Dir(<<"alloc", "no-tasking">>,
      [Has_libc |-> No, RTS_Profile |-> {"light"}, Has_CHERI |-> No], Always,
      Everywhere,
      {<<"s-memory.adb", "zfp", Everywhere>>}),
  Dir(<<"alloc", "no-tasking-cheri">>,
      [Has_libc |-> No, RTS_Profile |-> {"light"}, Has_CHERI |-> Yes], Always,
      Everywhere,
      {<<"s-memory.adb", "zfp_cheri", Everywhere>>}),
  Dir(<<"alloc", "no-cas">>,
      [Has_libc |-> No, RTS_Profile |-> {"light-tasking"},
       Has_Compare_And_Swap |-> No], Always, Everywhere,
      {<<"s-memory.adb", "zfp", Everywhere>>}),
  Dir(<<"alloc", "tasking">>,
      [Has_libc |-> No, RTS_Profile |-> {"light-tasking"},
       Has_Compare_And_Swap |-> Yes,
       Certifiable_Packages |-> No, Has_CHERI |-> No], Always, Everywhere,
      {<<"s-memory.adb", "raven", Everywhere>>}),
  Dir(<<"alloc", "tasking-cheri">>,
      [Has_libc |-> No, RTS_Profile |-> {"light-tasking"},
       Has_Compare_And_Swap |-> Yes,
       Certifiable_Packages |-> No, Has_CHERI |-> Yes], Always, Everywhere,
      {<<"s-memory.adb", "raven_cheri", Everywhere>>}),
  Dir(<<"alloc", "tasking-noc">>,
      [Has_libc |-> No, RTS_Profile |-> {"light-tasking"},
       Has_Compare_And_Swap |-> Yes, Certifiable_Packages |-> Yes,
       Has_CHERI |-> No], Always, Everywhere,
      {<<"s-memory.adb", "raven_noc", Everywhere>>}) >>

(* Memory operations and the secondary stack. *)
MemDirs == <<
  Dir(<<"mem">>, [Has_libc |-> No], Always, Everywhere, {}),
  Dir(<<"mem", "no-cheri">>, [Has_libc |-> No, Has_CHERI |-> No], Always,
      Everywhere,
      {<<"s-memcop.adb", "hie", Everywhere>>}),
  Dir(<<"mem", "cheri">>, [Has_libc |-> No, Has_CHERI |-> Yes], Always,
      Everywhere,
      {<<"s-memcop.adb", "cheri", Everywhere>>}),
  Dir(<<"secondary_stack", "symbol">>,
      [RTS_Profile |-> Except("RTS_Profile", {"cert"}), Has_CHERI |-> No],
      Always, Everywhere,
      {<<"s-secsta.adb", "zfp", Everywhere>>,
       <<"s-secsta.ads", "zfp", Everywhere>>}),
  Dir(<<"secondary_stack", "symbol-cheri">>,
      [RTS_Profile |-> Except("RTS_Profile", {"cert"}), Has_CHERI |-> Yes],
      Always, Everywhere,
      {<<"s-secsta.adb", "cheri", Everywhere>>,
       <<"s-secsta.ads", "zfp", Everywhere>>}),
  Dir(<<"secondary_stack", "softlinks">>, [RTS_Profile |-> {"cert"}], Always,
      Everywhere,
      {<<"s-secsta.adb", "cert", Everywhere>>,
       <<"s-secsta.ads", "cert", Everywhere>>}) >>

(* The C library, libgcc and Text_IO. *)
LibcDirs == <<
  Dir(<<"libc">>, [Add_C_Integration |-> {"ada_clib"}], Always,
      Everywhere, {}),
  Dir(<<"newlib">>, [Add_C_Integration |-> {"newlib"}], Always,
      Everywhere, {}),
  Feature(<<"libgcc">>, {"Certifiable_Packages"}, {}),
  Dir(<<"libgcc", "arm">>,
      [Certifiable_Packages |-> Yes, CPU_Family |-> {"arm"}], Always,
      Everywhere,
      {<<"s-gcdifl.adb", "arm", Everywhere>>}),
  Dir(<<"libgcc", "other_archs">>,
      [Certifiable_Packages |-> Yes,
       CPU_Family |-> Except("CPU_Family", {"arm"})], Always, Everywhere,
      {<<"s-gcdifl.adb", "hie", Everywhere>>}),
  Dir(<<"system_io">>, [Text_IO |-> {"serial"}], Always, {"bb"},
      {<<"a-textio.adb", "bb", {"bb"}>>}),
  Dir(<<"semihosting">>, [Text_IO |-> {"semihosting"}], Always, {"bb"},
      {<<"a-textio.adb", "semihosting", {"bb"}>>}) >>

(* The 'Image attributes. *)
ImageDirs == <<
  Feature(<<"image", "enum">>, {"Add_Image_Enum"}, {"Add_Value_Spec"}),
  Feature(<<"image", "decimal">>, {"Add_Image_Decimal"}, {"Add_Image_Util"}),
  Feature(<<"image", "decimal_ll">>, {"Add_Image_LL_Decimal"},
          {"Add_Image_Decimal"}),
  Feature(<<"image", "decimal_lll">>, {"Add_Image_LLL_Decimal"},
          {"Add_Image_Decimal"}),
  Feature(<<"image", "fixed">>, {"Add_Image_Fixed"}, {"Add_Image_Util"}),
  Feature(<<"image", "fixed_ll">>, {"Add_Image_LL_Fixed"},
          {"Add_Image_Fixed", "Add_Arith64"}),
  Feature(<<"image", "fixed_lll">>, {"Add_Image_LLL_Fixed"},
          {"Add_Image_Fixed", "Add_Arith128"}),
  Feature(<<"image", "float">>, {"Add_Image_Float"},
          {"Add_Image_Util", "Add_Float_Util"}),
  Feature(<<"image", "int">>, {"Add_Image_Int"}, {"Add_Value_Spec"}),
  Feature(<<"image", "int_ll">>, {"Add_Image_LL_Int"},
          {"Add_Image_Int", "Add_Value_LL_Spec"}),
  Feature(<<"image", "int_lll">>, {"Add_Image_LLL_Int"},
          {"Add_Image_Int", "Add_Value_LLL_Spec"}),
  Feature(<<"image", "based_int">>, {"Add_Image_Based_Int"}, {}),
  Feature(<<"image", "based_int_ll">>, {"Add_Image_LL_Based_Int"},
          {"Add_Image_Based_Int"}),
  Feature(<<"image", "based_int_lll">>, {"Add_Image_LLL_Based_Int"},
          {"Add_Image_Based_Int"}),
  Feature(<<"image", "char">>, {"Add_Image_Char"}, {}),
  Feature(<<"image", "wide_char">>, {"Add_Image_Wide_Char"},
          {"Add_Image_Char"}),
  Feature(<<"image", "util">>, {"Add_Image_Util"}, {"Add_Image_Int"}) >>

(* The 'Value attributes. *)
ValueDirs == <<
  Feature(<<"value", "spec">>, {"Add_Value_Spec"}, {}),
  Feature(<<"value", "spec_ll">>, {"Add_Value_LL_Spec"}, {}),
  Feature(<<"value", "spec_lll">>, {"Add_Value_LLL_Spec"}, {}),
  Feature(<<"value", "Boolean">>, {"Add_Value_Bool"}, {"Add_Value_Utils"}),
  Feature(<<"value", "enum">>, {"Add_Value_Enum"}, {"Add_Value_Utils"}),
  Feature(<<"value", "decimal">>, {"Add_Value_Decimal"},
          {"Add_Value_Utils"}),
  Feature(<<"value", "decimal_ll">>, {"Add_Value_LL_Decimal"},
          {"Add_Value_Decimal"}),
  Feature(<<"value", "decimal_lll">>, {"Add_Value_LLL_Decimal"},
          {"Add_Value_Decimal"}),
  Feature(<<"value", "fixed">>, {"Add_Value_Fixed"}, {"Add_Value_Utils"}),
  Feature(<<"value", "fixed_ll">>, {"Add_Value_LL_Fixed"},
          {"Add_Value_Fixed", "Add_Arith64"}),
  Feature(<<"value", "fixed_lll">>, {"Add_Value_LLL_Fixed"},
          {"Add_Value_Fixed", "Add_Arith128"}),
  Feature(<<"value", "float">>, {"Add_Value_Float"},
          {"Add_Value_Utils", "Add_Float_Util"}),
  Feature(<<"value", "int">>, {"Add_Value_Int"}, {"Add_Value_Utils"}),
  Feature(<<"value", "int_ll">>, {"Add_Value_LL_Int"},
          {"Add_Value_Utils", "Add_Value_LL_Spec"}),
  Feature(<<"value", "int_lll">>, {"Add_Value_LLL_Int"},
          {"Add_Value_Utils", "Add_Value_LLL_Spec"}),
  Feature(<<"value", "char">>, {"Add_Value_Char"}, {"Add_Value_Utils"}),
  Feature(<<"value", "wide_char">>, {"Add_Value_Wide_Char"},
          {"Add_Value_Utils"}),
  Feature(<<"value", "utils">>, {"Add_Value_Utils"},
          {"Add_Case_Util", "Add_Value_Spec"}) >>

(* What the attributes share. *)
UtilDirs == <<
  Dir(<<"utils", "float_fma">>, [Add_Float_Util |-> Yes, Has_FMA |-> Yes],
      Always, Everywhere,
      {<<"s-dorepr.adb", "fma", Everywhere>>}),
  Dir(<<"utils", "float">>, [Add_Float_Util |-> Yes, Has_FMA |-> No], Always,
      Everywhere,
      {<<"s-dorepr.adb", "std", Everywhere>>}),
  Feature(<<"utils", "case_util">>, {"Add_Case_Util"}, {}),
  Feature(<<"ioexce">>, {"Add_IO_Exceptions"}, {}) >>

(* The mathematical library. *)
MathDirs == <<
  Dir(<<"fpu">>, Always, Always, Everywhere, {}),
  Dir(<<"math">>, [Add_Math_Lib |-> Except("Add_Math_Lib", {"no"})], Always,
      Everywhere,
      {<<"a-nllefu.ads", "cert", {"deos", "vx7r2cert", "qnx"}>>}),
  Dir(<<"math", "long_long_64bit">>,
      [Add_Math_Lib |-> Except("Add_Math_Lib", {"no"}),
       CPU_Family |-> Except("CPU_Family", {"x86", "x86_64"})], Always,
      {"bb", "freertos", "pikeos"},
      {<<"a-nllefu.ads", "std", {"bb", "freertos", "pikeos"}>>}),
  Dir(<<"math", "long_long_80bit">>,
      [Add_Math_Lib |-> Except("Add_Math_Lib", {"no"}),
       CPU_Family |-> {"x86", "x86_64"}], Always, {"bb", "pikeos"},
      {<<"a-nllefu.ads", "ada", {"bb", "pikeos"}>>}),
  Dir(<<"math", "complex">>,
      [Add_Math_Lib |-> Except("Add_Math_Lib", {"no"}),
       Add_Complex_Type_Support |-> Yes], Always, Everywhere, {}),
  Dir(<<"math", "full">>,
      [Add_Math_Lib |-> Except("Add_Math_Lib", {"no"}),
       RTS_Profile |-> {"embedded"}], Always, Everywhere, {}),
  Dir(<<"math", "softsp">>, [Add_Math_Lib |-> {"softfloat", "hardfloat_dp"}],
      Always, {"bb", "freertos", "pikeos"},
      {<<"s-lisisq.adb", "ada", {"bb", "freertos", "pikeos"}>>}),
  Dir(<<"math", "softdp">>, [Add_Math_Lib |-> {"softfloat", "hardfloat_sp"}],
      Always, {"bb", "freertos", "pikeos"},
      {<<"s-lidosq.adb", "ada", {"bb", "freertos", "pikeos"}>>}),
  Dir(<<"math", "hardsp">>, [Add_Math_Lib |-> {"hardfloat", "hardfloat_sp"}],
      Always, {"bb", "freertos", "pikeos"},
      {<<"s-lisisq.adb", "fpu", {"bb", "freertos", "pikeos"}>>}),
  Dir(<<"math", "harddp">>, [Add_Math_Lib |-> {"hardfloat", "hardfloat_dp"}],
      Always, {"bb", "freertos", "pikeos"},
      {<<"s-lidosq.adb", "fpu", {"bb", "freertos", "pikeos"}>>}) >>

(* Arithmetic, exponentiation and streams. *)
ArithDirs == <<
  Feature(<<"arith64">>, {"Add_Arith64"}, {}),
  Feature(<<"arith128">>, {"Add_Arith128"}, {"Add_Arith64"}),
  Feature(<<"exponent", "int">>, {"Add_Exponent_Int"}, {}),
  Feature(<<"exponent", "int_ll">>, {"Add_Exponent_LL_Int"},
          {"Add_Exponent_Int"}),
  Feature(<<"exponent", "int_lll">>, {"Add_Exponent_LLL_Int"},
          {"Add_Exponent_Int"}),
  Feature(<<"exponent", "mod">>, {"Add_Exponent_Modular"}, {}),
  Feature(<<"exponent", "float">>, {"Add_Exponent_Float"}, {}),
  Feature(<<"streams">>, {"Add_Streams"}, {"Add_IO_Exceptions"}),
  Dir(<<"streams", "no_cheri">>, [Add_Streams |-> Yes, Has_CHERI |-> No],
      [Add_IO_Exceptions |-> Yes], Everywhere,
      {<<"s-stratt.adb", "std", Everywhere>>}),
  Dir(<<"streams", "cheri">>, [Add_Streams |-> Yes, Has_CHERI |-> Yes],
      [Add_IO_Exceptions |-> Yes], Everywhere,
      {<<"s-stratt.adb", "cheri", Everywhere>>}) >>

(* Zero-cost exceptions. *)
ZcxDirs == <<
  Dir(<<"full", "zcx-arm">>,
      [RTS_Profile |-> {"embedded"}, CPU_Family |-> {"arm"}], Always,
      Everywhere,
      {<<"s-excmac.adb", "arm", Everywhere>>,
       <<"s-traceb.adb", "armeabi", Everywhere>>}),
  Dir(<<"full", "zcx-dw2">>,
      [RTS_Profile |-> {"embedded"},
       CPU_Family |-> Except("CPU_Family", {"arm"})], Always, Everywhere,
      {<<"s-excmac.adb", "gcc", Everywhere>>}),
  Dir(<<"full", "zcx-dw2-gcc">>,
      [RTS_Profile |-> {"embedded"},
       CPU_Family |-> Except("CPU_Family", {"arm"}),
       Compiler_Backend |-> {"gcc"}], Always, Everywhere, {}),
  Dir(<<"full", "zcx-aarch64">>,
      [RTS_Profile |-> {"embedded"}, CPU_Family |-> {"aarch64"}], Always,
      Everywhere,
      {<<"s-traceb.adb", "dwarf", Everywhere>>}),
  Dir(<<"full", "zcx-ppc">>,
      [RTS_Profile |-> {"embedded"}, CPU_Family |-> {"powerpc"}], Always,
      Everywhere,
      {<<"s-traceb.adb", "ppc", Everywhere>>}),
  Dir(<<"full", "zcx-riscv">>,
      [RTS_Profile |-> {"embedded"}, CPU_Family |-> {"riscv64", "riscv32"}],
      Always, Everywhere,
      {<<"s-traceb.adb", "dwarf", Everywhere>>}),
  Dir(<<"full", "zcx-leon">>,
      [RTS_Profile |-> {"embedded"}, CPU_Family |-> {"leon"}], Always,
      Everywhere,
      {<<"s-traceb.adb", "sparc", Everywhere>>}),
  Dir(<<"full", "zcx-x86">>,
      [RTS_Profile |-> {"embedded"}, CPU_Family |-> {"x86"}], Always,
      Everywhere,
      {<<"s-traceb.adb", "vx653-sim", Everywhere>>}),
  Dir(<<"full", "zcx-x86_64">>,
      [RTS_Profile |-> {"embedded"}, CPU_Family |-> {"x86_64"}], Always,
      Everywhere,
      {<<"s-traceb.adb", "dwarf", Everywhere>>}) >>

(* Containers and atomic operations. *)
ContainerDirs == <<
  Dir(<<"containers">>, [RTS_Profile |-> {"embedded"}], Always,
      Everywhere, {}),
  Dir(<<"atomics">>, Always, Always, Everywhere, {}),
  Dir(<<"atomics", "64">>,
      [CPU_Family |-> {"aarch64", "powerpc64", "x86", "x86_64", "riscv64"}],
      Always, Everywhere,
      {<<"s-atopri.ads", "std", Everywhere>>}),
  Dir(<<"atomics", "32">>,
      [CPU_Family |-> {"arm", "powerpc", "leon", "riscv32"}], Always,
      Everywhere,
      {<<"s-atopri.ads", "32", Everywhere>>}) >>

(* Packed arrays. *)
PackDirs == <<
  Feature(<<"pack">>, {"Add_Pack"}, {}),
  Feature(<<"pack64">>, {"Add_Pack64"}, {"Add_Pack"}) >>

(* Tasking over each operating system. *)
GnarlOsDirs == <<
  Dir(<<"gnarl", "common">>, Always, Always, Everywhere,
      {<<"a-textio.adb", "pikeos", {"pikeos"}>>,
       <<"s-interr.adb", "hie", {"bb"}>>,
       <<"s-musplo.adb", "hie", {"pikeos", "vx7r2cert", "qnx"}>>,
       <<"s-osinte.adb", "qnx-light-tasking", {"qnx"}>>,
       <<"s-osinte.adb", "vxworks-light-tasking", {"vx7r2cert"}>>,
       <<"s-osinte.ads", "hie", {"bb"}>>,
       <<"s-osinte.ads", "qnx-light-tasking", {"qnx"}>>,
       <<"s-osinte.ads", "vxworks-light-tasking", {"vx7r2cert"}>>}),
  Dir(<<"gnarl", "vx7r2cert">>, [Is_RTP |-> No], Always, {"vx7r2cert"},
      {<<"s-vxwext.adb", "light-tasking", {"vx7r2cert"}>>}),
  Dir(<<"gnarl", "vx7r2cert-rtp">>, [Is_RTP |-> Yes], Always, {"vx7r2cert"},
      {<<"s-vxwext.adb", "light-tasking-rtp", {"vx7r2cert"}>>}),
  Dir(<<"gnarl", "aarch64">>, [CPU_Family |-> {"aarch64"}], Always,
      {"vx7r2cert"},
      {<<"s-vxwork.ads", "aarch64", {"vx7r2cert"}>>}),
  Dir(<<"gnarl", "arm">>, [CPU_Family |-> {"arm"}], Always, {"vx7r2cert"},
      {<<"s-vxwork.ads", "arm", {"vx7r2cert"}>>}),
  Dir(<<"gnarl", "ppc">>, [CPU_Family |-> {"powerpc", "powerpc64"}], Always,
      {"vx7r2cert"},
      {<<"s-vxwork.ads", "ppc", {"vx7r2cert"}>>}),
  Dir(<<"gnarl", "x86">>, [CPU_Family |-> {"x86", "x86_64"}], Always,
      {"vx7r2cert"},
      {<<"s-vxwork.ads", "x86", {"vx7r2cert"}>>}),
  Dir(<<"gnarl", "pikeos3">>, [Pikeos_Version |-> {"pikeos3"}], Always,
      {"pikeos"},
      {<<"s-interr.adb", "pikeos3", {"pikeos"}>>,
       <<"s-osinte.adb", "pikeos3", {"pikeos"}>>,
       <<"s-osinte.ads", "pikeos3", {"pikeos"}>>}),
  Dir(<<"gnarl", "pikeos4">>, [Pikeos_Version |-> {"pikeos4"}], Always,
      {"pikeos"},
      {<<"s-interr.adb", "pikeos4", {"pikeos"}>>,
       <<"s-osinte.adb", "pikeos4", {"pikeos"}>>,
       <<"s-osinte.ads", "pikeos4", {"pikeos"}>>}),
  Dir(<<"gnarl", "pikeos4.2">>, [Pikeos_Version |-> {"pikeos4.2"}], Always,
      {"pikeos"},
      {<<"s-interr.adb", "pikeos4", {"pikeos"}>>,
       <<"s-osinte.adb", "p4ext", {"pikeos"}>>,
       <<"s-osinte.ads", "pikeos4", {"pikeos"}>>}),
  Dir(<<"gnarl", "pikeos5">>, [Pikeos_Version |-> {"pikeos5"}], Always,
      {"pikeos"},
      {<<"s-interr.adb", "pikeos4", {"pikeos"}>>,
       <<"s-osinte.adb", "p4ext", {"pikeos"}>>,
       <<"s-osinte.ads", "pikeos4", {"pikeos"}>>}) >>

(* Tasking for each profile. *)
GnarlProfileDirs == <<
  Dir(<<"gnarl", "sfp">>, [RTS_Profile |-> {"light-tasking"}], Always,
      Everywhere,
      {<<"s-taskin.ads", "light-tasking", Everywhere>>,
       <<"s-tpobop.adb", "light-tasking", Everywhere>>}),
  Dir(<<"gnarl", "full">>, [RTS_Profile |-> {"embedded"}], Always, Everywhere,
      {<<"s-taskin.ads", "full", Everywhere>>}),
  Dir(<<"gnarl", "full", "extended">>, [RTS_Profile |-> {"embedded"}], Always,
      Everywhere,
      {<<"s-tpobop.adb", "bb", Everywhere>>}) >>

(* Timers and spin locks. *)
GnarlBoardDirs == <<
  Dir(<<"gnarl", "timer32">>, [Timer |-> {"timer32"}], Always, {"bb"},
      {<<"s-bbbosu.ads", "timer-32", {"bb"}>>}),
  Dir(<<"gnarl", "timer64">>, [Timer |-> {"timer64"}], Always, {"bb"},
      {<<"s-bbbosu.ads", "timer-64", {"bb"}>>}),
  Dir(<<"gnarl", "spinlock-gcc">>,
      [CPU_Family |-> Except("CPU_Family", {"leon"})], Always, {"bb"},
      {<<"s-musplo.adb", "hie", {"bb"}>>}),
  Dir(<<"gnarl", "spinlock-leon">>, [CPU_Family |-> {"leon"}], Always, {"bb"},
      {<<"s-musplo.adb", "leon", {"bb"}>>}) >>

(* The sizes of System.Parameters. *)
ParameterDirs == <<
  Dir(<<"gnat", "parameters", "small">>,
      [RTS_Profile |-> Except("RTS_Profile", {"light"}),
       Memory_Profile |-> {"small"}], Always, {"bb"},
      {<<"s-parame.adb", "hie", {"bb"}>>,
       <<"s-parame.ads", "small", {"bb"}>>}),
  Dir(<<"gnat", "parameters", "large">>,
      [RTS_Profile |-> Except("RTS_Profile", {"light"}),
       Memory_Profile |-> {"large"}], Always, {"bb"},
      {<<"s-parame.adb", "hie", {"bb"}>>,
       <<"s-parame.ads", "large", {"bb"}>>}),
  Dir(<<"gnat", "parameters", "huge">>,
      [RTS_Profile |-> Except("RTS_Profile", {"light"}),
       Memory_Profile |-> {"huge"}], Always, {"bb"},
      {<<"s-parame.adb", "hie", {"bb"}>>, <<"s-parame.ads", "huge", {"bb"}>>}),
  Dir(<<"gnat", "parameters", "light-small">>,
      [RTS_Profile |-> {"light"}, Memory_Profile |-> {"small"}], Always,
      {"bb", "freertos"},
      {<<"s-parame.ads", "zfp_small", {"bb", "freertos"}>>}),
  Dir(<<"gnat", "parameters", "light-large">>,
      [RTS_Profile |-> {"light"}, Memory_Profile |-> {"large"}], Always,
      {"bb", "freertos"},
      {<<"s-parame.ads", "zfp", {"bb", "freertos"}>>}),
  Dir(<<"gnat", "parameters", "light-huge">>,
      [RTS_Profile |-> {"light"}, Memory_Profile |-> {"huge"}], Always,
      {"bb", "freertos"},
      {<<"s-parame.ads", "zfp_huge", {"bb", "freertos"}>>}) >>

(* The certified profile. *)
CertDirs == <<
  Dir(<<"cert">>, [RTS_Profile |-> {"cert"}], Always, Everywhere,
      {<<"a-calclo.adb", "deos", Everywhere>>,
       <<"a-elchha.adb", "deos", Everywhere>>,
       <<"a-elchha.ads", "std", Everywhere>>,
       <<"a-except.adb", "cert", Everywhere>>,
       <<"g-io.ads", "c", Everywhere>>,
       <<"s-except.ads", "cert", Everywhere>>,
       <<"s-excmac.adb", "gcc", Everywhere>>,
       <<"s-init.ads", "hie", Everywhere>>,
       <<"s-parame.adb", "cert", Everywhere>>,
       <<"s-parame.ads", "deos", {"deos"}>>,
       <<"s-traceb.adb", "zfp", {"deos"}>>}),
  Dir(<<"cert", "arm">>, [CPU_Family |-> {"arm"}, RTS_Profile |-> {"cert"}],
      Always, Everywhere,
      {<<"s-tracon.adb", "zfp-arm", Everywhere>>}) >>

SharedDirs ==
  CommonDirs \o LightDirs \o FullDirs \o AllocDirs \o MemDirs \o LibcDirs \o
  ImageDirs \o ValueDirs \o UtilDirs \o MathDirs \o ArithDirs \o ZcxDirs \o
  ContainerDirs \o PackDirs \o GnarlOsDirs \o GnarlProfileDirs \o
  GnarlBoardDirs \o ParameterDirs \o CertDirs

=============================================================================
