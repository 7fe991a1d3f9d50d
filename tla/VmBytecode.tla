----------------------------- MODULE VmBytecode -----------------------------
(***************************************************************************)
(* The two programs of vm_bytecode.h, byte by byte as the header has them: *)
(* build_vm_bytecode.py has written every byte XOR VM_OPCODE_XOR_KEY.      *)
(***************************************************************************)
VM_OPCODE_XOR_KEY == \hFF

VM_BC_verify_hash ==
  <<\hFE, \hF0, \h52, \h21, \hFF, \hFF, \hFD, \h01, \hFA, \h11, \hF0, \hFE, \hF2, \hFF, \hFF, \hFF, \hFF, \hF5,
    \h21, \hF3, \hF8, \hFF, \hFF, \hFF, \hFE, \hFF, \h00, \h00, \h00, \h00, \hED, \hFE, \hFD, \hFF, \hFF, \hFF,
    \hFF, \hFE, \hFC, \hBF, \hFF, \hFF, \hFF, \hFE, \hF7, \hFE, \hFF, \hFF, \hFF, \hFE, \hFA, \hFF, \hFF, \hFF,
    \hFF, \hF5, \hAF, \hF3, \hB4, \hFF, \hFF, \hFF, \hF5, \hAE, \hF3, \hBB, \hFF, \hFF, \hFF, \hF5, \hAC, \hF3,
    \hC9, \hFF, \hFF, \hFF, \hF1, \hFA, \hFF, \hFF, \hF5, \hAA, \hFE, \hF6, \hFF, \hFF, \hFF, \hFF, \hF1, \hFA,
    \hFF, \hFF, \hF5, \h6A, \hF3, \hE0, \hFF, \hFF, \hFF, \hF1, \hE9, \hFF, \hFF, \hF5, \h69, \hF3, \hEB, \hFF,
    \hFF, \hFF, \hFA, \hA8, \hF9, \hF8, \hDD, \hF8, \hFC, \hFF, \hF7, \hFC, \hEE, \hF7, \hFB, \hCC, \hF7, \hF4,
    \h3C, \h00, \h00, \h00, \hF5, \h6D, \hF3, \hF8, \hFF, \hFF, \hFF, \hFE, \hFF, \hFE, \hFF, \hFF, \hFF, \hED,
    \hFE, \hFF, \hFF, \hFF, \hFF, \hFF, \hED>>

VM_BC_xor_decrypt ==
  <<\hFE, \hF0, \h52, \h21, \hFF, \hFF, \hFD, \h01, \hFA, \h11, \hF0, \hFE, \hF2, \hFF, \hFF, \hFF, \hFF, \hF5,
    \h21, \hF3, \hF8, \hFF, \hFF, \hFF, \hFE, \hFF, \h00, \h00, \h00, \h00, \hED, \hFD, \hF4, \hFD, \hE5, \hFE,
    \hFB, \hFF, \hFF, \hFF, \hFF, \hFE, \hF7, \hFE, \hFF, \hFF, \hFF, \hFE, \hF6, \hFF, \hFF, \hFF, \hFF, \hF5,
    \h6D, \hF3, \hD0, \hFF, \hFF, \hFF, \hF1, \hFA, \hFF, \hFF, \hF1, \h59, \hFF, \hFF, \hFA, \hA8, \hF9, \hEF,
    \h8F, \hFF, \hFF, \hFC, \hFF, \hF7, \hFC, \h55, \hF7, \hFC, \hBB, \hF7, \hF5, \hCB, \hF2, \hF7, \hFF, \hFF,
    \hFF, \hFD, \hE5, \hFE, \hFB, \hFF, \hFF, \hFF, \hFF, \hFB, \hDD, \hF7, \hF4, \h35, \h00, \h00, \h00, \hFD,
    \h4F, \hED>>

=============================================================================
