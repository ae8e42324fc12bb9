------------------------------- MODULE NvBlock -------------------------------
(* The block in which a module's data are stored (nexus_nv.c): the ID of the *)
(* block, the inner data and a CRC (crc_ccitt.c), as bytes.  The product's   *)
(* nxp_common_nv_read and _write are external: a read copies the block or    *)
(* fails, a write replaces the block or fails.                               *)
EXTENDS SipHash
LOCAL INSTANCE Integers
LOCAL INSTANCE Sequences
LOCAL INSTANCE SequencesExt

Uint16(n) == <<n % 256, n \div 256>>      \* a uint16_t in memory

(* Faulty variant: the last step shifts by four. *)
crc_ccitt_update_Shift(crc, byte) ==
  LET a == LimbXor((crc \div 256) + 256 * (crc % 256), byte)
      b == LimbXor(a, (a % 256) \div 16)
      c == LimbXor(b, (b % 16) * 4096)
  IN  LimbXor(c, (c % 256) * 16)

(* The bits above the 16 that are returned never reach them. *)
crc_ccitt_update(crc, byte) ==
  LET a == LimbXor((crc \div 256) + 256 * (crc % 256), byte)
      b == LimbXor(a, (a % 256) \div 16)
      c == LimbXor(b, (b % 16) * 4096)
  IN  LimbXor(c, (c % 256) * 32)

compute_crc_ccitt(bytes) == FoldLeft(crc_ccitt_update, 65535, bytes)

(* Faulty variant: the CRC is not compared. *)
nv_block_valid_IdOnly(id, block) == SubSeq(block, 1, 2) = Uint16(id)

nv_block_valid(id, block) ==
  /\ SubSeq(block, 1, 2) = Uint16(id)
  /\ SubSeq(block, Len(block) - 1, Len(block))
       = Uint16(compute_crc_ccitt(SubSeq(block, 1, Len(block) - 2)))

Inner(block) == SubSeq(block, 3, Len(block) - 2)

(* Faulty variant: the CRC leaves out the ID of the block. *)
new_block_NoId(id, data) == Uint16(id) \o data \o Uint16(compute_crc_ccitt(data))

new_block(id, data) ==
  LET body == Uint16(id) \o data IN body \o Uint16(compute_crc_ccitt(body))

(* What nexus_nv_update returns and leaves in NV.  The comparison is of the  *)
(* inner data, whether or not the block they are in is valid.                *)
nexus_nv_update(id, data, nv) ==
  IF nv.readable /\ Inner(nv.block) = data THEN [ok |-> TRUE, block |-> nv.block]
  ELSE IF nv.writable THEN [ok |-> TRUE, block |-> new_block(id, data)]
  ELSE [ok |-> FALSE, block |-> nv.block]

(* The result of the product's read is not looked at: when it fails, the     *)
(* zeros the buffer started with are checked.                                *)
nexus_nv_read(id, nv) ==
  LET block == IF nv.readable THEN nv.block ELSE [i \in DOMAIN nv.block |-> 0]
  IN  IF nv_block_valid(id, block) THEN [ok |-> TRUE, data |-> Inner(block)]
      ELSE [ok |-> FALSE, data |-> <<>>]
=============================================================================
