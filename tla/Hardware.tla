------------------------------- MODULE Hardware -------------------------------
(***************************************************************************)
(* What a worker finds out about its machine before it registers           *)
(* (hardware.py), as a function of what torch and the vendors' tools say.  *)
(* A machine is a record:                                                  *)
(*   cards              the graphics cards it has of each vendor,          *)
(*   physical, logical  cores psutil counts, 0 when it cannot,             *)
(*   ramGb              its memory,                                        *)
(*   torch              whether torch can be imported and says that a      *)
(*                      device is available, whether it is a ROCm build,   *)
(*                      and of each device it then lists (none, perhaps)   *)
(*                      its name and whether it can be queried,            *)
(*   nvidia             of each line of nvidia-smi, whether it has the     *)
(*                      three fields asked for,                            *)
(*   rocm               of each line of rocm-smi, whether it names a card. *)
(* A tool that is missing, fails or times out lists nothing.  Of a device  *)
(* that is reported only the vendor is kept: its index, memory and driver  *)
(* are displayed and not used.                                             *)
(***************************************************************************)
EXTENDS SequencesExt

Vendors == {"nvidia", "amd", "intel", "other"}

Machines ==
  [cards: [{"nvidia", "amd"} -> Nat], physical: Nat, logical: Nat, ramGb: Nat,
   torch: [active: BOOLEAN, hip: BOOLEAN,
           gpus: Seq([name: Vendors, readable: BOOLEAN])],
   nvidia: Seq([complete: BOOLEAN]),
   rocm: Seq([namesCard: BOOLEAN])]

\* The first count that is neither None nor 0, and one core at least.
CpuCores(m) ==
  IF m.physical > 0 THEN m.physical ELSE IF m.logical > 0 THEN m.logical ELSE 1

\* Names are abstracted to the vendor they mention, "other" for none.
InferVendor(name, backend) ==
  IF name # "other" THEN name ELSE IF backend = "rocm" THEN "amd" ELSE "nvidia"

\* gpuDevices lists the vendors of the devices.
GpuInfo(vendor, backend, devices) ==
  [gpuAvailable |-> TRUE, gpuVendor |-> vendor, gpuBackend |-> backend,
   gpuCount |-> Len(devices), gpuDevices |-> devices]

NoGpu ==
  [gpuAvailable |-> FALSE, gpuVendor |-> "none", gpuBackend |-> "none",
   gpuCount |-> 0, gpuDevices |-> << >>]

ViaNvidiaSmi(m) ==
  LET devices == SelectSeq(m.nvidia, LAMBDA line : line.complete)
  IN  [k \in DOMAIN devices |-> "nvidia"]

ViaRocmSmi(m) ==
  LET devices == SelectSeq(m.rocm, LAMBDA line : line.namesCard)
  IN  [k \in DOMAIN devices |-> "amd"]

FallbackGpuInfo(m) ==
  IF ViaNvidiaSmi(m) # << >> THEN GpuInfo("nvidia", "cuda", ViaNvidiaSmi(m))
  ELSE IF ViaRocmSmi(m) # << >> THEN GpuInfo("amd", "rocm", ViaRocmSmi(m))
  ELSE NoGpu

TorchBackend(m) == IF m.torch.hip THEN "rocm" ELSE "cuda"

TorchDevices(m) ==
  [k \in DOMAIN m.torch.gpus |-> InferVendor(m.torch.gpus[k].name, TorchBackend(m))]

\* With no device listed the vendor is that of the build.
TorchGpuInfo(m) ==
  LET devices == TorchDevices(m)
  IN  GpuInfo(IF devices # << >> THEN devices[1] ELSE InferVendor("other", TorchBackend(m)),
              TorchBackend(m), devices)

TorchSucceeds(m) ==
  m.torch.active /\ \A k \in DOMAIN m.torch.gpus : m.torch.gpus[k].readable

\* Variant: the devices torch could tell are kept when the tools are asked.
DetectKeepingTorch(m) ==
  LET told == {k \in DOMAIN m.torch.gpus :
                 m.torch.active /\ \A j \in 1 .. k : m.torch.gpus[j].readable}
  IN  IF TorchSucceeds(m)
        THEN TorchGpuInfo(m)
        ELSE [FallbackGpuInfo(m) EXCEPT !.gpuCount = @ + Cardinality(told)]

\* Whatever goes wrong with torch, at any device, leaves it to the tools, and
\* what torch said of the devices before is discarded.
DetectGpuInfo(m) ==
  IF TorchSucceeds(m) THEN TorchGpuInfo(m) ELSE FallbackGpuInfo(m)

\* What the scheduler reads of what detectHardware reports.
DetectHardware(m) ==
  [cpuCores |-> CpuCores(m), ramGb |-> m.ramGb,
   gpuAvailable |-> DetectGpuInfo(m).gpuAvailable]

\* gpuCount as the registry stores it.
StoredGpuCount(info) ==
  IF info.gpuCount > 0 THEN info.gpuCount ELSE Len(info.gpuDevices)
==============================================================================
