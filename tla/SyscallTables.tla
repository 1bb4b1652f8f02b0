---------------------------- MODULE SyscallTables ----------------------------
(***************************************************************************)
(* The two tables of system calls and their argument counts: the one       *)
(* monitor.py looks numbers up in, and the array QEMU searches, which is   *)
(* generated from it by a script the repository does not hold.  A call's   *)
(* name is its number here.                                                *)
(***************************************************************************)
EXTENDS Naturals, Sequences

\* vmi_syscall_table[]: the order is what the binary search relies on.
TableNumbers == <<
  0, 1, 2, 3, 4, 5, 6, 7, 8, 9, 10, 11, 12, 13, 14, 16, 17, 18, 19, 20, 21,
  22, 23, 24, 26, 28, 32, 33, 34, 35, 37, 38, 39, 40, 41, 42, 43, 44, 45,
  46, 47, 48, 49, 50, 51, 52, 53, 54, 55, 56, 60, 61, 62, 63, 72, 73, 74,
  75, 76, 77, 78, 79, 80, 81, 82, 83, 84, 85, 86, 87, 88, 89, 90, 91, 92,
  93, 94, 95, 96, 97, 98, 99, 100, 102, 104, 105, 106, 107, 108, 109, 110,
  111, 112, 113, 114, 115, 116, 117, 118, 119, 120, 121, 122, 123, 124,
  125, 126, 127, 128, 129, 130, 131, 132, 133, 137, 138, 140, 141, 149,
  157, 158, 160, 161, 162, 164, 165, 166, 170, 186, 200, 201, 202, 203,
  204, 213, 217, 218, 221, 222, 223, 224, 225, 226, 227, 228, 229, 230,
  231, 232, 233, 234, 235, 247, 257, 258, 261, 262, 263, 264, 267, 269,
  270, 271, 280, 281, 283, 284, 285, 286, 287, 288, 290, 291, 292, 293,
  295, 296, 297, 302, 309, 318, 324, 327, 328, 441 >>

TableArgcs == <<
  3, 3, 3, 1, 2, 2, 2, 3, 3, 6, 3, 2, 1, 4, 4, 3, 4, 4, 3, 3, 2, 1, 5, 0,
  3, 3, 1, 2, 0, 2, 1, 3, 0, 4, 3, 3, 3, 6, 6, 3, 3, 2, 3, 2, 3, 3, 4, 5,
  5, 5, 1, 4, 2, 1, 3, 2, 1, 1, 2, 2, 3, 2, 1, 1, 2, 2, 1, 2, 2, 1, 2, 3,
  2, 2, 3, 3, 3, 1, 2, 2, 2, 1, 1, 0, 0, 1, 1, 0, 0, 2, 0, 0, 0, 2, 2, 2,
  2, 3, 3, 3, 3, 1, 1, 1, 1, 2, 2, 2, 4, 3, 2, 2, 2, 3, 2, 2, 2, 3, 2, 5,
  3, 2, 1, 0, 2, 5, 2, 2, 0, 2, 1, 6, 3, 3, 1, 3, 1, 4, 3, 4, 2, 1, 1, 2,
  2, 2, 4, 1, 4, 4, 3, 2, 5, 4, 3, 3, 4, 3, 4, 4, 4, 6, 5, 4, 6, 2, 1, 4,
  4, 2, 4, 2, 1, 3, 2, 4, 4, 4, 4, 3, 3, 3, 5, 5, 6 >>

VmiSyscallTable ==
  [i \in DOMAIN TableNumbers |-> [nr |-> TableNumbers[i], argc |-> TableArgcs[i]]]

\* SYSCALL_TABLE, by argument count: a dict, so the order is of no account.
WithArgc == [argc \in 0..6 |->
  CASE argc = 0 -> {
       24, 34, 39, 102, 104, 107, 108, 110, 111, 112, 162, 186}
    [] argc = 1 -> {
       3, 12, 22, 32, 37, 60, 63, 74, 75, 80, 81, 84, 87, 95, 99, 100,
       105, 106, 121, 122, 123, 124, 161, 201, 213, 218, 225, 226,
       231, 284, 291}
    [] argc = 2 -> {
       4, 5, 6, 11, 21, 33, 35, 48, 50, 62, 73, 76, 77, 79, 82, 83,
       85, 86, 88, 90, 91, 96, 97, 98, 109, 113, 114, 115, 116, 125,
       126, 127, 130, 131, 132, 137, 138, 140, 149, 160, 164, 166,
       170, 200, 224, 227, 228, 229, 235, 283, 287, 290, 293}
    [] argc = 3 -> {
       0, 1, 2, 7, 8, 10, 16, 19, 20, 26, 28, 38, 41, 42, 43, 46, 47,
       49, 51, 52, 72, 78, 89, 92, 93, 94, 117, 118, 119, 120, 129,
       133, 141, 158, 203, 204, 217, 222, 234, 258, 261, 263, 292,
       309, 318, 324}
    [] argc = 4 -> {
       13, 14, 17, 18, 40, 53, 61, 128, 221, 223, 230, 232, 233, 257,
       262, 264, 267, 269, 280, 285, 286, 288, 295, 296, 297, 302}
    [] argc = 5 -> {
       23, 54, 55, 56, 157, 165, 247, 271, 327, 328}
    [] argc = 6 -> {
       9, 44, 45, 202, 270, 281, 441}]

SYSCALL_TABLE ==
  [nr \in UNION {WithArgc[argc] : argc \in 0..6} |->
     CHOOSE argc \in 0..6 : nr \in WithArgc[argc]]
=============================================================================
