\* A cancellation that overtakes the DPC of its request.
SPECIFICATION Spec
CONSTANTS
  Lengths = {1, 3}
  Fifo = 2
INVARIANTS
  DpcFindsInterruptsDisabled
