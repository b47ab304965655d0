---------------------------- MODULE MCSlotBitmap ----------------------------
EXTENDS SlotBitmap
=============================================================================
