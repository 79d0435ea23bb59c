------------------------------- MODULE BlApi ---------------------------------
(***************************************************************************)
(* core/src/bl_api.c: the table through which a running application finds  *)
(* bl_core_confirm.  A table is its three marks, each right or wrong, and  *)
(* the address of the function; addresses are WordMod wide.                *)
(***************************************************************************)
EXTENDS Integers

CONSTANTS WordMod    \* 2^32 on the target, 2^64 on the host

\* The table that the bootloader publishes.
bl_api_table(confirm) ==
    [magic |-> TRUE, version |-> TRUE, size |-> TRUE, confirm |-> confirm]

\* The difference is compared: base + size may be 2^32 or more.
in_region_by_end(value, base, size) ==      \* fault: the end of the region wraps
    value # 0 /\ value >= base /\ value < (base + size) % WordMod
address_in_region(value, base, size) ==
    /\ value # 0
    /\ value >= base
    /\ (value - base) % WordMod < size

\* Whether the table is returned.  A null address is an application without
\* a bootloader and is left out.
bl_api_lookup(candidate, base, size) ==
    /\ size # 0
    /\ candidate.magic
    /\ candidate.version
    /\ candidate.size
    /\ address_in_region(candidate.confirm, base, size)
=============================================================================
