------------------------------- MODULE MCMinivmm -------------------------------
(* 64 MB, 256 MB, all below the virtio windows, beyond them, and more than 4 GB. *)
(* Kernels: at 16 MB as Linux is built, one that needs more than 64 MB there, an *)
(* old protocol.  Initramfs: tiny, of odd size, nearly the smallest memory, and  *)
(* larger than that.                                                             *)
EXTENDS Minivmm

MCMemSizes == {64 * MB, 256 * MB, 3328 * MB, 3456 * MB, 4352 * MB}
MCKernels == {[image |-> 10 * MB, pref |-> 16 * MB, init |-> 40 * MB, v2_10 |-> TRUE],
              [image |-> 40 * MB, pref |-> 16 * MB, init |-> 62 * MB, v2_10 |-> TRUE],
              [image |-> 3 * MB, pref |-> 0, init |-> 0, v2_10 |-> FALSE]}
MCHostCpuids == {{"x2apic", "tsc_deadline", "kvm_signature", "kvm_features"},
                 {"tsc_deadline"}}
MCInitrdSizes == {1, 8 * MB + 5, 62 * MB, 70 * MB}
=============================================================================
