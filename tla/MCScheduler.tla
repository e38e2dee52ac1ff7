----------------------------- MODULE MCScheduler -----------------------------
(***************************************************************************)
(* The scheduler over every combination of two core counts, two memory     *)
(* sizes and GPU or not; workers with and without a GPU tie in size.  The  *)
(* machines differ in how a GPU is found or missed.                        *)
(***************************************************************************)
EXTENDS HardwarePool

NoTorch == [active |-> FALSE, hip |-> FALSE, gpus |-> << >>]
Torch(hip, gpus) == [active |-> TRUE, hip |-> hip, gpus |-> gpus]
Gpu(name, readable) == [name |-> name, readable |-> readable]

Machine(cards, cores, ram, torch, nvidia, rocm) ==
  [cards |-> [v \in {"nvidia", "amd"} |-> IF v = "nvidia" THEN cards[1] ELSE cards[2]],
   physical |-> cores[1], logical |-> cores[2], ramGb |-> ram, torch |-> torch,
   nvidia |-> [i \in DOMAIN nvidia |-> [complete |-> nvidia[i]]],
   rocm |-> [i \in DOMAIN rocm |-> [namesCard |-> rocm[i]]]]

Small == <<4, 8>>      (* cores, counted with and without hyperthreading     *)
Big == <<0, 8>>        (* psutil cannot tell physical cores                  *)
Unknown == <<0, 0>>

\* <<NVIDIA cards, AMD cards>>.  Found: by torch, two cards of which one is
\* called by another name, with the tool listing them too; by torch that lists
\* no device; by nvidia-smi, among messages, after torch could query one of two
\* cards, with an AMD card beside them; by rocm-smi, two lines per card.
GpuMachines ==
  {Machine(<<2, 0>>, Small, 16,
           Torch(FALSE, << Gpu("other", TRUE), Gpu("nvidia", TRUE) >>), << TRUE, TRUE >>, << >>),
   Machine(<<0, 1>>, Small, 64, Torch(TRUE, << >>), << >>, << TRUE >>),
   Machine(<<2, 1>>, Big, 16,
           Torch(FALSE, << Gpu("nvidia", TRUE), Gpu("nvidia", FALSE) >>),
           << TRUE, FALSE, TRUE >>, << TRUE >>),
   Machine(<<0, 1>>, Big, 64, Torch(TRUE, << Gpu("amd", FALSE) >>), << >>,
           << FALSE, TRUE, TRUE >>)}

\* Missed: nothing to find; tools that print no device; cards torch cannot
\* query, or only one of two, where no tool is installed.
OtherMachines ==
  {Machine(<<0, 0>>, Small, 16, NoTorch, << >>, << >>),
   Machine(<<1, 0>>, Small, 64, NoTorch, << FALSE >>, << >>),
   Machine(<<0, 1>>, Big, 16, NoTorch, << >>, << FALSE, FALSE >>),
   Machine(<<2, 0>>, Big, 64, Torch(FALSE, << Gpu("nvidia", TRUE), Gpu("nvidia", FALSE) >>),
           << >>, << >>),
   Machine(<<0, 0>>, Unknown, 16, NoTorch, << >>, << >>)}

PoolWorkers == GpuMachines \cup OtherMachines

PoolProfile == [m \in PoolWorkers |-> DetectHardware(m)]

\* minRamGb: absent, met by some, met by none.
PoolNeeds == [requiresGpu: BOOLEAN, minRamGb: {0, 32, 128}, wellFormed: {TRUE}]

NoSessions == [m \in PoolWorkers |-> 0]
==============================================================================
