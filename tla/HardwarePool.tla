----------------------------- MODULE HardwarePool -----------------------------
(***************************************************************************)
(* Hardware detection and the scheduler together: a pool of idle workers,  *)
(* each named by its machine, whose profiles are what detectHardware makes *)
(* of those machines.                                                      *)
(***************************************************************************)
EXTENDS IdlePool, Hardware

TorchVendor(m) == IF m.torch.hip THEN "amd" ELSE "nvidia"

\* None of the sources invents a card.  Each build of torch sees cards of one
\* vendor, and not all of them perhaps; it calls a device available only where
\* there is one.  nvidia-smi prints one line per card and maybe messages, and
\* rocm-smi any number of lines per card.
ASSUME MachineAssumption ==
  \A m \in Workers :
    /\ m \in Machines
    /\ Len(m.torch.gpus) <= m.cards[TorchVendor(m)]
    /\ \A k \in DOMAIN m.torch.gpus : m.torch.gpus[k].name \in {TorchVendor(m), "other"}
    /\ m.torch.active => m.cards[TorchVendor(m)] > 0
    /\ Cardinality({i \in DOMAIN m.nvidia : m.nvidia[i].complete}) <= m.cards["nvidia"]
    /\ (\E i \in DOMAIN m.rocm : m.rocm[i].namesCard) => m.cards["amd"] > 0

ASSUME DetectionAssumption == Profile = [m \in Workers |-> DetectHardware(m)]

\* rocm-smi is the source that is believed.
CountsLinesOfRocm(m) == ~ TorchSucceeds(m) /\ ViaNvidiaSmi(m) = << >>

\* No card is reported twice, although torch may fail after it has read some
\* devices and three sources know of the same cards: the registry never counts
\* more GPUs on an idle worker than it has of the vendor reported, and reports
\* a vendor it has cards of.  The count from rocm-smi is excepted, since
\* _detectViaRocmSmi takes every line about a card for a device.
GpusAreCountedOnce ==
  \A m \in idle :
    LET info == DetectGpuInfo(m)
    IN  info.gpuAvailable =>
          /\ m.cards[info.gpuVendor] > 0
          /\ StoredGpuCount(info) <= m.cards[info.gpuVendor] \/ CountsLinesOfRocm(m)
===============================================================================
