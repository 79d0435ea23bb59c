------------------------------- MODULE BlProto -------------------------------
(***************************************************************************)
(* The protocol and storage vocabulary of core/include/bl_proto.h and      *)
(* core/include/bl_meta.h that the other modules share: firmware slots,    *)
(* boot states and result codes.  Codes are strings named as in the C      *)
(* enumeration; their numeric values carry no behaviour of the device.     *)
(***************************************************************************)
EXTENDS Integers

BL_SLOT_COUNT == 2
BL_META_COUNT == 2

\* Values of type uint8_t that name an existing slot.
Slot == 0 .. BL_SLOT_COUNT - 1

\* (slot + 1) % BL_SLOT_COUNT: the fallback of a slot.
other(s) == (s + 1) % BL_SLOT_COUNT

BL_BOOT_CONFIRMED == "BL_BOOT_CONFIRMED"
BL_BOOT_TRIAL     == "BL_BOOT_TRIAL"

\* bl_boot_state_t.
BootState == {BL_BOOT_CONFIRMED, BL_BOOT_TRIAL}

BL_OK == "BL_OK"

\* The error codes that the modelled operations return.
BL_ERR == {"BL_ERR_INVALID_ARGUMENT", "BL_ERR_FLASH_ERASE",
           "BL_ERR_FLASH_PROGRAM", "BL_ERR_FLASH_VERIFY",
           "BL_ERR_NO_METADATA", "BL_ERR_NO_VALID_IMAGE",
           "BL_ERR_JUMP_REFUSED", "BL_ERR_NOT_ERASED",
           "BL_ERR_IMAGE_SIZE", "BL_ERR_INVALID_PACKET",
           "BL_ERR_MAGIC", "BL_ERR_HDR_VERSION", "BL_ERR_HDR_CRC",
           "BL_ERR_ENTRY_OFFSET", "BL_ERR_IMAGE_CRC"}

\* What bl_meta_commit returns when a flash operation fails.
CommitError == {"BL_ERR_FLASH_ERASE", "BL_ERR_FLASH_PROGRAM", "BL_ERR_FLASH_VERIFY"}

\* bl_result_t.
Result == {BL_OK} \cup BL_ERR
=============================================================================
