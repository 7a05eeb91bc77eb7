---------------------------- MODULE MCRomWriter ----------------------------
(***************************************************************************)
(* What RomWriter is checked on: layouts of small ROMs.                    *)
(***************************************************************************)
EXTENDS RomWriter, SmallRoms

Layouts(r) ==
    {zelda64_compress(r), zelda64_decompress(r)}

Overrides(r) ==
    {zelda64_layout_set_operation(zelda64_decompress(r), f, op) :
        f \in 0..3, op \in {"DELETE", "COPY", "DECOMPRESS"}}
    \cup {zelda64_layout_set_operation(zelda64_compress(r), f, op) :
        f \in 1..4, op \in {"DELETE", "DECOMPRESS", "COMPRESS"}}

Job(r, l, pack, pad, target, faults) ==
    [rom |-> r, layout |-> l, pack |-> pack, pad |-> pad, target |-> target,
     room |-> zelda64_write_bound(r, l, pack, pad).bound, faults |-> faults]

JobsOf(roms, LayoutsOf(_), pads, faults) ==
    UNION {{Job(r, l, pack, pad, t, faults) :
              l \in LayoutsOf(r), pack \in {"SPARSE", "DENSE"}, pad \in pads,
              t \in {"FILE", "BUFFER"}} :
           r \in roms}

(* Whole ROMs, compressed and decompressed. *)
PlainJobs == JobsOf(MCRoms, Layouts, {"NONE", "RAMP"}, FALSE)

(* What the theorems about sound jobs ask for is true of all of these. *)
ASSUME PlainJobsAreSound == \A j \in PlainJobs : IsSound(j)

(* ROMs that end inside file 4, or inside file 3. *)
CutJobs ==
    JobsOf({Cut(Rom(k[1], k[2], 4, 3, 3, 0), n) : k \in KindPairs, n \in {2, 5, 7}},
           Layouts, {"NONE"}, FALSE)

(* Layouts changed after they were made, with every call that may fail. *)
OddJobs ==
    JobsOf({Rom(k3, k4, 4, 3, 3, 0) : k3 \in Kinds, k4 \in {"stored", "packed"}},
           Overrides, {"NONE", "ZERO"}, TRUE)

MCJobs == PlainJobs \cup CutJobs \cup OddJobs

MCCompressJobs ==
    {Job(Rom(k, "stored", 4, 3, 3, 0), zelda64_compress(Rom(k, "stored", 4, 3, 3, 0)),
         "DENSE", "NONE", "FILE", FALSE) : k \in Kinds}

MCSparseJobs ==
    {Job(Rom(k, "stored", 4, 3, 3, 0), zelda64_decompress(Rom(k, "stored", 4, 3, 3, 0)),
         "SPARSE", pad, "FILE", FALSE) : k \in Kinds, pad \in {"NONE", "ZERO"}}
=============================================================================
