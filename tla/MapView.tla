------------------------------ MODULE MapView ------------------------------
(***************************************************************************)
(* The arithmetic of a view of a memory mapped file (sysmemmap.h,          *)
(* sysmmdetail.h): which part of the file is mapped, and by which pages.   *)
(* A size is in bytes, an object is sizeof(T) bytes.                       *)
(***************************************************************************)
EXTENDS Integers

(* do_remap(): no range_error for a view at offset of a map of size bytes. *)
InRange(size, offset, object) == object <= size /\ offset <= size - object

(* do_remap(): the bytes mapped when so many are asked for, 0 for all.     *)
ByteSize(size, offset, bytes) ==
    IF bytes = 0 \/ bytes > size \/ offset > size - bytes THEN size - offset ELSE bytes

(* page_align() and size_align(), for an address or a file offset at.      *)
PageOf(at, page_size) == at \div page_size
PageOffset(at, page_size) == at % page_size
size_align(at, size, page_size) == size + PageOffset(at, page_size)

(* The whole pages that the kernel takes for so many bytes.                *)
PagesFor(bytes, page_size) == (bytes + page_size - 1) \div page_size
=============================================================================
