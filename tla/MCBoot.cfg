SPECIFICATION Spec
CONSTANTS
  PageSize = 8
  Bits = 8
  Entries = 16
  IoIdx = 12
  KernelIdx = 13
  SwapIdx = 14
  BootStart = 5
  BootEnd = 7
  EntrySize = 2
  KernelPhys = 24
  KernelPages = 1
  Video = 104
  VideoLen = 3
  Maps <- LowMaps
  IoTables <- Leftovers
INVARIANTS BitmapInFreeMemory PlaceFound BitmapExact KernelMapped CoreReached
\* Boot ends, in the kernel or in a fault.
CHECK_DEADLOCK FALSE
