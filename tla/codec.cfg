SPECIFICATION Spec
CONSTANTS
  Letters = {0, 24, 32, 65, 95, 97, 98, 129, 159, 161, 191, 192, 216, 224, 244, 248, 255}
  MaxPayload = 3
CHECK_DEADLOCK FALSE
INVARIANTS CborFaithful RepFaithful CoapFaithful SecuredFaithful BlocksFaithful MemoryKept KeysReadAsIssued
