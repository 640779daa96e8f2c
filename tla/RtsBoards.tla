------------------------------ MODULE RtsBoards ------------------------------
(***************************************************************************)
(* The boards of the run-time builder: what each class of bsp_sources and  *)
(* of the architecture packages says of a board, as a record that the      *)
(* definition of its class derives from the record of its parent class.    *)
(*                                                                         *)
(* A trait stands for a property of TargetConfiguration that is not the    *)
(* one of the base class.  Of the sources of a board, own has the two that *)
(* the shared sources expect of a board support package: the console       *)
(* s-textio.adb and, for libgnarl, the board support s-bbbosu.adb.         *)
(* A linker script is its name with the loader it is for: "" for a script  *)
(* that the others include, "any" for one that needs no loader.  The FPU   *)
(* that the compiler switches select is recorded for the Cortex-M boards.  *)
(***************************************************************************)
EXTENDS Naturals, Sequences, TLC

TargetConfiguration ==
  [name |-> "", cpu |-> "", os |-> "bb",
   runtimes |-> <<"light", "light-tasking", "embedded">>,
   traits |-> {}, pikeos_version |-> "", loaders |-> <<>>, scripts |-> {},
   own |-> {}, mfpu |-> ""]

With(board, traits) == [board EXCEPT !.traits = @ \cup traits]

Without(board, traits) == [board EXCEPT !.traits = @ \ traits]

Named(board, name) == [board EXCEPT !.name = name]

(* An FPU for both precisions. *)
FullFPU == {"sp", "dp"}

Console == "s-textio.adb"

BoardSupport == "s-bbbosu.adb"

OwnFiles == {Console, BoardSupport}

LightOnly == <<"light">>

RomRam == {<<"common-ROM.ld", "ROM">>, <<"common-RAM.ld", "RAM">>}

(* DFBBTarget: a bare board with an FPU for both precisions. *)
DFBBTarget == With(TargetConfiguration, FullFPU)

----------------------------------------------------------------------------

(* Cortex-M. *)
ArmV6MTarget ==
  With([TargetConfiguration EXCEPT !.cpu = "arm"], {"small"})

ArmV7MTarget ==
  With([ArmV6MTarget EXCEPT !.own = {BoardSupport}], {"sp"})

LM3S ==
  With([Without(ArmV7MTarget, {"sp"}) EXCEPT
          !.name = "lm3s", !.runtimes = LightOnly,
          !.loaders = <<"ROM", "RAM">>,
          !.scripts = {<<"lm3s-rom.ld", "ROM">>, <<"lm3s-ram.ld", "RAM">>},
          !.own = OwnFiles, !.mfpu = "soft"],
       {"fpu"})

SamCommonArchSupport ==
  [ArmV7MTarget EXCEPT
     !.loaders = <<"ROM", "SAMBA", "RAM">>,
     !.scripts = RomRam \cup {<<"common-SAMBA.ld", "SAMBA">>}]

Sam(board) ==
  LET cortexM7 == board \in {"samv71", "samrh71"}
      scripts == SamCommonArchSupport.scripts \cup {<<"memory-map.ld", "">>}
      base == With([SamCommonArchSupport EXCEPT
                      !.name = board, !.scripts = scripts,
                      !.mfpu = "sp",
                      !.runtimes = <<"light", "light-tasking">>],
                   {"semihosting"})
  IN  IF cortexM7
      THEN With([base EXCEPT !.mfpu = "dp",
                             !.runtimes = TargetConfiguration.runtimes],
                {"dp"})
      ELSE IF board = "sam4s"
      THEN Without([base EXCEPT !.mfpu = ""], {"sp"})
      ELSE base

SmartFusion2 ==
  With([Without(ArmV7MTarget, {"sp"}) EXCEPT
          !.name = "smartfusion2", !.runtimes = <<"light-tasking">>,
          !.loaders = <<"ROM">>,
          !.scripts = {<<"common-ROM.ld", "ROM">>, <<"memory-map.ld", "ROM">>},
          !.own = OwnFiles, !.mfpu = "soft"],
       {"fpu"})

CortexM0CommonArchSupport ==
  With([ArmV6MTarget EXCEPT !.loaders = <<"ROM", "RAM">>,
                            !.own = {BoardSupport}, !.mfpu = "soft"],
       {"fpu"})

Stm32F0(board) ==
  With([CortexM0CommonArchSupport EXCEPT
          !.name = board,
          !.scripts = RomRam \cup {<<"memory-map.ld", "">>}],
       {"semihosting"})

CortexM1CommonArchSupport ==
  With([ArmV6MTarget EXCEPT
          !.loaders = <<"TCM", "RAM">>,
          !.scripts = {<<"common-TCM.ld", "TCM">>, <<"common-RAM.ld", "RAM">>},
          !.own = {BoardSupport}, !.mfpu = "soft"],
       {"fpu"})

MicrosemiM1 ==
  [CortexM1CommonArchSupport EXCEPT
     !.name = "microsemi-m1", !.scripts = @ \cup {<<"memory-map.ld", "">>},
     !.own = OwnFiles]

NRF51 ==
  With([ArmV6MTarget EXCEPT
          !.name = "nRF51", !.loaders = <<"ROM">>,
          !.scripts = {<<"common-ROM.ld", "ROM">>}, !.own = {BoardSupport},
          !.mfpu = "soft"],
       {"fpu"})

Microbit ==
  [NRF51 EXCEPT !.name = "microbit",
                !.scripts = @ \cup {<<"memory-map.ld", "">>}, !.own = OwnFiles]

NRF52 ==
  With([ArmV7MTarget EXCEPT
          !.name = "nRF52", !.loaders = <<"ROM">>,
          !.scripts = {<<"common-ROM.ld", "ROM">>, <<"memory-map.ld", "">>},
          !.mfpu = "sp"],
       {"fpu"})

NRF52833 == With(Named(NRF52, "nrf52833"), {"semihosting"})

NRF52840 == With(Named(NRF52, "nrf52840"), {"semihosting"})

NRF52832 == With(Named(NRF52, "nrf52832"), {"semihosting"})

Stm32CommonArchSupport ==
  [ArmV7MTarget EXCEPT !.loaders = <<"ROM", "RAM">>, !.scripts = RomRam]

Stm32(board) ==
  LET base == With([Stm32CommonArchSupport EXCEPT
                      !.name = board, !.mfpu = "sp",
                      !.scripts = @ \cup {<<"memory-map.ld", "">>}],
                   {"semihosting"})
  IN  IF board = "stm32f769disco"
      THEN With([base EXCEPT !.mfpu = "dp"], {"dp"})
      ELSE base

Stm32lCommonArchSupport ==
  [ArmV7MTarget EXCEPT
     !.scripts = {<<"common-RAM.ld", "">>, <<"common-ROM.ld", "">>}]

Stm32l(board) ==
  LET memories == {"RAM", "ROM", "ROM_TZNONSECURE", "ROM_TZSECURE",
                   "RAM_TZNONSECURE", "RAM_TZSECURE"}
  IN  With([Stm32lCommonArchSupport EXCEPT
              !.name = board, !.mfpu = "sp",
              !.runtimes = <<"light", "light-tasking">>,
              !.loaders = <<"ROM", "RAM", "ROM_TZNONSECURE", "ROM_TZSECURE",
                            "RAM_TZNONSECURE", "RAM_TZSECURE">>,
              !.scripts = @ \cup {<<"memory-map", m>> : m \in memories}],
           {"semihosting"})

(* The generic Light run-time libraries of the Cortex-M processors. *)
Generic(target, name, mfpu) ==
  With([target EXCEPT !.name = name, !.mfpu = mfpu, !.runtimes = LightOnly],
       {"fpu", "semihosting"})

CortexM0 == Generic(ArmV6MTarget, "cortex-m0", "soft")

CortexM0P == Named(CortexM0, "cortex-m0p")

CortexM1 == Generic(ArmV6MTarget, "cortex-m1", "soft")

CortexM3 == Without(Generic(ArmV7MTarget, "cortex-m3", "soft"), {"sp"})

CortexM4 == Without(Generic(ArmV7MTarget, "cortex-m4", "soft"), {"sp"})

CortexM4F ==
  With([CortexM4 EXCEPT !.name = "cortex-m4f", !.mfpu = "sp"], {"sp"})

CortexM7F == Generic(ArmV7MTarget, "cortex-m7f", "sp")

CortexM7DF ==
  With([CortexM7F EXCEPT !.name = "cortex-m7df", !.mfpu = "dp"], {"dp"})

ArmV8MTarget == With(ArmV7MTarget, FullFPU)

CortexM23 == Generic(ArmV8MTarget, "cortex-m23", "soft")

CortexM33F == Generic(ArmV8MTarget, "cortex-m33f", "sp")

CortexM33DF == [CortexM33F EXCEPT !.name = "cortex-m33df", !.mfpu = "dp"]

RP2040 ==
  [CortexM0P EXCEPT !.runtimes = <<"light-tasking", "embedded">>,
                    !.loaders = <<"ROM">>, !.own = {BoardSupport}]

RP2040Target(name) ==
  [RP2040 EXCEPT !.name = name,
                 !.scripts = RomRam \cup {<<"memory-map.ld", "">>}]

----------------------------------------------------------------------------

(* Cortex-A and Cortex-R. *)
CortexARTarget ==
  With([DFBBTarget EXCEPT !.cpu = "arm"], {"timer64"})

Loaded(board, name, loaders, scripts) ==
  [board EXCEPT !.name = name, !.loaders = loaders, !.scripts = scripts,
                !.own = OwnFiles]

RamLoader == <<"RAM">>

RamScript == {<<"ram.ld", "RAM">>}

RamWithCommon == RamScript \cup {<<"common.ld", "">>}

AM64xR5 ==
  With([Loaded(CortexARTarget, "am64xr5", RamLoader,
               RamWithCommon \cup {<<"memmap.ld", "">>}) EXCEPT
          !.runtimes = <<"light-tasking">>],
       {"small"})

Rpi2Base == Loaded(CortexARTarget, "", RamLoader, RamScript)

Rpi2 == Named(Rpi2Base, "rpi2")

Rpi2Mc == Named(Rpi2Base, "rpi2mc")

TMS570(name) ==
  With(Loaded(CortexARTarget, name, <<"LORAM", "FLASH", "HIRAM">>,
              {<<"common.ld", "">>, <<"tms570.ld", "">>,
               <<"flash.ld", "FLASH">>, <<"hiram.ld", "HIRAM">>,
               <<"loram.ld", "LORAM">>}),
       {"small"})

ZynqmpR5 ==
  Loaded(CortexARTarget, "zynqmpr5", RamLoader,
         RamWithCommon \cup {<<"memmap.ld", "">>})

Zynq7000 ==
  With(Loaded(CortexARTarget, "zynq7000", RamLoader, RamScript), {"huge"})

(* AArch64. *)
Aarch64Target ==
  With([DFBBTarget EXCEPT !.cpu = "aarch64"], {"64bit", "huge", "timer64"})

MorelloTarget == [Aarch64Target EXCEPT !.cpu = "morello"]

ZynqMP ==
  Loaded(Aarch64Target, "zynqmp", <<"RAM", "QSPI", "HELIX">>,
         RamWithCommon \cup {<<"qspi.ld", "QSPI">>, <<"helix.ld", "HELIX">>})

Rpi3Base == Loaded(Aarch64Target, "", RamLoader, RamScript)

Rpi3 == Named(Rpi3Base, "rpi3")

Rpi3Mc == Named(Rpi3Base, "rpi3mc")

Morello(uart_io) ==
  LET base == With(Loaded(MorelloTarget, "morello", RamLoader, RamWithCommon),
                   {"cheri"})
  IN  IF uart_io THEN base
      ELSE With([base EXCEPT !.name = "morello-semihosting",
                             !.own = {BoardSupport}],
                {"semihosting"})

(* SPARC: a single script without a loader is the DEFAULT one. *)
LeonTarget ==
  Loaded(DFBBTarget, "", <<>>, {<<"leon.ld", "any">>})

Leon2 == [LeonTarget EXCEPT !.name = "leon", !.cpu = "leon"]

(* need_fix_ut699 removes the single precision, a uniprocessor the CAS. *)
Leon3(smp) ==
  LET base == Without([LeonTarget EXCEPT !.cpu = "leon3"], {"sp"})
  IN  IF smp
      THEN [base EXCEPT !.name = "leon3-smp",
                        !.runtimes = <<"light-tasking", "embedded">>]
      ELSE With(Named(base, "leon3"), {"nocas"})

Leon4(smp) ==
  With(Named(Leon3(smp), IF smp THEN "leon4-smp" ELSE "leon4"), {"sp"})

(* PowerPC: floating point attributes, but no hardware in the math library. *)
PPC6XXTarget ==
  With([TargetConfiguration EXCEPT !.cpu = "powerpc"], {"fpu", "timer64"})

MPC5200 ==
  With(Loaded(PPC6XXTarget, "mpc5200", RamLoader, RamScript), {"certpkgs"})

MPC8349e == Loaded(PPC6XXTarget, "mpc8349e", <<>>, {<<"ram.ld", "any">>})

MPC8641 ==
  Loaded(PPC6XXTarget, "mpc8641", <<"ROM", "RAM">>,
         RamWithCommon \cup {<<"rom.ld", "ROM">>})

PPCBookETarget == PPC6XXTarget

Virtex5 ==
  With(Loaded(PPCBookETarget, "virtex5", RamLoader, RamScript), {"certpkgs"})

PPCSPETarget == PPC6XXTarget

P5634 ==
  [Loaded(PPCSPETarget, "p5634", <<>>, {<<"5634.ld", "any">>}) EXCEPT
     !.own = {Console}]

P2020 == Loaded(PPCSPETarget, "p2020", <<>>, {<<"p2020.ld", "any">>})

P5566 ==
  Loaded(PPCSPETarget, "p5566", <<"EXTRAM", "BAM", "FLASH">>,
         {<<"bam.ld", "BAM">>, <<"flash.ld", "FLASH">>,
          <<"ram.ld", "EXTRAM">>})

(* RISC-V. *)
RiscV64 ==
  With([DFBBTarget EXCEPT !.cpu = "riscv64", !.runtimes = LightOnly,
                          !.own = {Console}],
       {"64bit", "huge", "timer64"})

Spike ==
  [RiscV64 EXCEPT !.name = "spike", !.loaders = RamLoader,
     !.scripts = {<<"memory-map.ld", "">>, <<"common-RAM.ld", "RAM">>}]

PolarFireSOC ==
  [Spike EXCEPT !.name = "polarfiresoc", !.own = OwnFiles,
                !.runtimes = TargetConfiguration.runtimes]

RiscV32 == With([DFBBTarget EXCEPT !.cpu = "riscv32"], {"timer64"})

HiFive1 ==
  With([Without(RiscV32, FullFPU) EXCEPT
          !.name = "hifive1", !.runtimes = LightOnly, !.loaders = <<"ROM">>,
          !.scripts = {<<"memory-map.ld", "">>, <<"common-ROM.ld", "ROM">>},
          !.own = OwnFiles],
       {"small"})

RV32BASE ==
  With([Without(RiscV32, FullFPU) EXCEPT !.runtimes = LightOnly,
                                         !.own = {Console}],
       {"small"})

(* The letters of the instruction set that add an FPU: F, then D. *)
RV32Boards ==
  [board \in {"rv32i", "rv32im", "rv32iac", "rv32imac"} |->
      Named(RV32BASE, board)]

RV32FloatBoards ==
  [rv32imafc |-> With(Named(RV32BASE, "rv32imafc"), {"sp"}),
   rv32imafdc |-> With(Named(RV32BASE, "rv32imafdc"), FullFPU)]

RV64BASE == Without(RiscV64, FullFPU)

RV64Boards ==
  [board \in {"rv64im", "rv64imc", "rv64imac"} |-> Named(RV64BASE, board)]

RV64FloatBoards ==
  [rv64imafc |-> With(Named(RV64BASE, "rv64imafc"), {"sp"}),
   rv64imfc |-> With(Named(RV64BASE, "rv64imfc"), {"sp"}),
   rv64imafdc |-> With(Named(RV64BASE, "rv64imafdc"), FullFPU)]

(* x86_64 and Visium. *)
X8664Generic ==
  With([Loaded(DFBBTarget, "x86_64",
               <<"QEMU", "LSA", "MULTIBOOT", "MULTIBOOT2">>,
               {<<"memory-map.ld", "">>, <<"common-LSA.ld", "LSA">>,
                <<"common-MULTIBOOT.ld", "MULTIBOOT">>,
                <<"common-MULTIBOOT2.ld", "MULTIBOOT2">>,
                <<"common-QEMU.ld", "QEMU">>}) EXCEPT !.cpu = "x86_64"],
       {"64bit", "huge", "timer64"})

Visium ==
  With([DFBBTarget EXCEPT !.name = "mcm", !.cpu = "visium",
                          !.runtimes = LightOnly, !.own = {Console}],
       {"libc", "small"})

----------------------------------------------------------------------------

(* Operating systems: the descriptor comes from another source profile. *)
PikeOS(name, cpu, version, script) ==
  With([TargetConfiguration EXCEPT
          !.name = name, !.cpu = cpu, !.os = "pikeos",
          !.pikeos_version = version, !.own = {Console},
          !.scripts = {<<"memory.ld", "">>, <<script, "">>}],
       FullFPU \cup {"args", "os", "legacy", "nolibc"})

ArmPikeOS == PikeOS("arm-pikeos", "arm", "pikeos4", "arm-app.ld")

ArmPikeOS42 == PikeOS("arm-pikeos4.2", "arm", "pikeos4.2", "arm-app.ld")

AArch64PikeOS5 ==
  PikeOS("aarch64-pikeos5", "aarch64", "pikeos5", "aarch64-pikeos5.ld")

ArmPikeOS5 == PikeOS("arm-pikeos5", "arm", "pikeos5", "arm-pikeos5.ld")

PPCPikeOS5 == PikeOS("ppc-pikeos5", "powerpc", "pikeos5", "ppc-pikeos5.ld")

(* VxWorks 7 Cert: kernel modules, and real-time processes (RTP). *)
Vx7r2Cert(cpu, is_rtp) ==
  LET base == With([TargetConfiguration EXCEPT
                      !.cpu = cpu, !.os = "vx7r2cert",
                      !.runtimes = <<"light", "light-tasking">>],
                   FullFPU \cup {"args", "huge", "legacy", "os", "libc"})
  IN  IF is_rtp
      THEN [With(base, {"rtp"}) EXCEPT
              !.name = cpu \o "-vx7r2cert-rtp",
              !.runtimes = IF cpu = "morello" THEN @ ELSE <<"light-tasking">>,
              !.loaders = <<"FULL_LINK", "PARTIAL_LINK">>]
      ELSE Named(base, cpu \o "-vx7r2cert")

Vx7r2Cert64(cpu, is_rtp) == With(Vx7r2Cert(cpu, is_rtp), {"64bit"})

VxWorks(is_rtp) ==
  [aarch64 |-> Vx7r2Cert64("aarch64", is_rtp),
   morello |-> With(Vx7r2Cert64("morello", is_rtp), {"cheri"}),
   arm |-> Vx7r2Cert("arm", is_rtp),
   ppc |-> Vx7r2Cert("ppc", is_rtp),
   ppc64 |-> Vx7r2Cert64("ppc64", is_rtp),
   x86 |-> Vx7r2Cert("x86", is_rtp),
   x86_64 |-> Vx7r2Cert64("x86_64", is_rtp)]

(* QNX: both boards have the same name. *)
QNX ==
  With([TargetConfiguration EXCEPT
          !.name = "qnx", !.os = "qnx",
          !.runtimes = <<"light", "light-tasking">>],
       FullFPU \cup {"args", "legacy", "os", "libc", "certpkgs"})

Aarch64QNX == With([QNX EXCEPT !.cpu = "aarch64"], {"64bit"})

ARMQNX == [QNX EXCEPT !.cpu = "arm"]

ArmDeos ==
  With([TargetConfiguration EXCEPT
          !.name = "arm-deos", !.cpu = "arm", !.os = "deos",
          !.runtimes = <<"cert">>],
       FullFPU \cup {"args", "small", "legacy", "os", "libc"})

FreeRTOS ==
  With([TargetConfiguration EXCEPT
          !.name = "v7a-fp", !.cpu = "arm", !.os = "freertos",
          !.runtimes = LightOnly],
       FullFPU \cup {"timer64", "libc"})

Native(name) ==
  With([DFBBTarget EXCEPT !.name = name, !.runtimes = LightOnly,
                          !.own = {Console}],
       {"native", "libc"})

X86Native == Native("native-x86")

X8664Native == With(Native("native-x86_64"), {"64bit"})

Aarch64Native == With(Native("native-aarch64"), {"64bit"})

----------------------------------------------------------------------------

(* build_configs: the target names and the board that each of them builds. *)
PicoBoards ==
  {"rpi-pico", "adafruit-feather-rp2040", "adafruit-itsybitsy-rp2040",
   "adafruit-macropad-rp2040", "adafruit-qt2040-trinkey",
   "adafruit-qtpy-rp2040", "arduino-nano-rp2040-connect",
   "pimoroni-interstate75", "pimoroni-keybow2040", "pimoroni-pga2040",
   "pimoroni-picolipo-4m", "pimoroni-picolipo-16m", "pimoroni-picosystem",
   "pimoroni-plasma2040", "pimoroni-tiny2040", "sparkfun-micromod",
   "sparkfun-promicro", "sparkfun-thingplus"}

PicoTargets ==
  [t \in PicoBoards \cup {board \o "-smp" : board \in PicoBoards} |->
      RP2040Target(t)]

CortexMTargets ==
  [t \in {"sam4s", "samg55", "samrh71", "samv71"} |-> Sam(t)] @@
  [t \in {"stm32f4", "nucleo_f401re", "feather_stm32f405", "stm32f429disco",
          "openmv2", "stm32f469disco", "stm32f746disco", "stm32756geval",
          "stm32f769disco"} |-> Stm32(t)] @@
  "stm32f051r8-hsi" :> Stm32F0("stm32f051r8-hsi") @@
  "stm32l562disco" :> Stm32l("stm32l562disco") @@
  "smartfusion2" :> SmartFusion2 @@ "lm3s" :> LM3S @@
  "microbit" :> Microbit @@ "nrf52833" :> NRF52833 @@
  "nrf52840" :> NRF52840 @@ "nrf52832" :> NRF52832 @@
  "microsemi-m1" :> MicrosemiM1 @@ "cortex-m0" :> CortexM0 @@
  "cortex-m0p" :> CortexM0P @@ "cortex-m1" :> CortexM1 @@
  "cortex-m3" :> CortexM3 @@ "cortex-m4" :> CortexM4 @@
  "cortex-m4f" :> CortexM4F @@ "cortex-m7f" :> CortexM7F @@
  "cortex-m7df" :> CortexM7DF @@ "cortex-m23" :> CortexM23 @@
  "cortex-m33f" :> CortexM33F @@ "cortex-m33df" :> CortexM33DF

OtherBareTargets ==
  [t \in {"tms570", "tms570_sci", "tms570lc", "tms570lc_dcc"} |-> TMS570(t)] @@
  RV32Boards @@ RV32FloatBoards @@ RV64Boards @@ RV64FloatBoards @@
  "am64xr5" :> AM64xR5 @@ "zynq7000" :> Zynq7000 @@ "zynqmpr5" :> ZynqmpR5 @@
  "rpi2" :> Rpi2 @@ "rpi2mc" :> Rpi2Mc @@ "rpi3" :> Rpi3 @@
  "rpi3mc" :> Rpi3Mc @@ "zynqmp" :> ZynqMP @@ "morello" :> Morello(TRUE) @@
  "morello-semihosting" :> Morello(FALSE) @@ "leon" :> Leon2 @@
  "leon2" :> Leon2 @@ "leon3" :> Leon3(FALSE) @@
  "leon3-smp" :> Leon3(TRUE) @@ "leon4" :> Leon4(FALSE) @@
  "leon4-smp" :> Leon4(TRUE) @@ "mpc5200" :> MPC5200 @@
  "mpc8641" :> MPC8641 @@ "8349e" :> MPC8349e @@ "p2020" :> P2020 @@
  "p5566" :> P5566 @@ "mpc5634" :> P5634 @@ "virtex5" :> Virtex5 @@
  "mcm" :> Visium @@ "spike" :> Spike @@ "hifive1" :> HiFive1 @@
  "polarfiresoc" :> PolarFireSOC @@ "x86_64" :> X8664Generic

SystemTargets ==
  [t \in {"x86-linux", "x86-windows"} |-> X86Native] @@
  [t \in {"x86_64-linux", "x86_64-windows", "x86_64-windows64"} |->
      X8664Native] @@
  "aarch64-linux" :> Aarch64Native @@ "arm-freertos-v7a-fp" :> FreeRTOS @@
  "arm-pikeos" :> ArmPikeOS @@ "arm-pikeos4.2" :> ArmPikeOS42 @@
  "arm-pikeos5" :> ArmPikeOS5 @@ "aarch64-pikeos5" :> AArch64PikeOS5 @@
  "ppc-pikeos5" :> PPCPikeOS5 @@ "arm-deos" :> ArmDeos @@
  "aarch64-qnx" :> Aarch64QNX @@ "arm-qnx" :> ARMQNX

VxTargets ==
  LET boards == {VxWorks(rtp)[cpu] : rtp \in BOOLEAN,
                                     cpu \in DOMAIN VxWorks(FALSE)}
  IN  [t \in {board.name : board \in boards} |->
          CHOOSE board \in boards : board.name = t]

BoardOf ==
  PicoTargets @@ CortexMTargets @@ OtherBareTargets @@ SystemTargets @@
  VxTargets

Targets == DOMAIN BoardOf

(* Properties that TargetConfiguration derives from the others. *)
HasFPU(board) ==
  \/ board.os = "pikeos"
  \/ board.traits \cap {"fpu", "sp", "dp"} # {}

HasLibc(board, profile) ==
  \/ "libc" \in board.traits
  \/ profile = "embedded" /\ "nolibc" \notin board.traits

IsOsTarget(board) == "os" \in board.traits

(* Native and legacy run-time libraries are named after their profile alone. *)
IsLegacyFormat(board) == board.traits \cap {"native", "legacy"} # {}
=============================================================================
