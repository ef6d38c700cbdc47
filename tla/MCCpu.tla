--------------------------------- MODULE MCCpu ---------------------------------
(***************************************************************************)
(* Guests for the processor: a program in real mode, one that sets up      *)
(* paging, two tasks, and one in ring 3.  Their code is given instruction  *)
(* by instruction, with what the bytes mean above them.                    *)
(*                                                                         *)
(* A page has 32 bytes and a table eight entries, so that 704 bytes of RAM *)
(* hold a directory, four tables and everything else.                      *)
(***************************************************************************)
EXTENDS Cpu

\* Real mode, with an interrupt of the timer anywhere and a service.
Bios == [
  start |-> 16, vector |-> 1, irqs |-> 1,
  gp |-> <<16, 65535, 32, 5, 632, 632, 4, 20>>,
  code |-> <<
    \* jmpf 0:begin; mov sp, 632; mov bp, sp; cld
    <<\hea, \h15, 0, 0, 0>>, <<\hbc, \h78, 2>>, <<\h89, \he5>>, <<\hfc>>,
    \* mov al, 2; out 0x92, al; in al, 0x92; mov ah, 0x80
    <<\hb0, 2>>, <<\he6, \h92>>, <<\he4, \h92>>, <<\hb4, \h80>>,
    \* mov ax, 0x20; mov ds, ax; push ds; pop es; sti; mov ax, [0]
    <<\hb8, \h20, 0>>, <<\h8e, \hd8>>, <<\h1e>>, <<7>>, <<\hfb>>, <<\ha1, 0, 0>>,
    \* mov [2], ax; mov word [4], 0x102; mov bx, 4; mov si, 2
    <<\ha3, 2, 0>>, <<\hc7, 6, 4, 0, 2, 1>>, <<\hbb, 4, 0>>, <<\hbe, 2, 0>>,
    \* mov al, [bx+si-6]; mov byte [bx], 0x80; movsx cx, byte [bx]
    <<\h8a, \h40, \hfa>>, <<\hc6, 7, \h80>>, <<\h0f, \hbe, \h0f>>,
    \* movzx dx, byte [bx]; movzx eax, cx; movsx eax, cx
    <<\h0f, \hb6, \h17>>, <<\h66, \h0f, \hb7, \hc1>>, <<\h66, \h0f, \hbf, \hc1>>,
    \* cbw; xchg ax, [bx]; lea di, [bx+si+16]; add ax, di; add dx, [bx]
    <<\h98>>, <<\h87, 7>>, <<\h8d, \h78, \h10>>, <<1, \hf8>>, <<3, \h17>>,
    \* sub ax, 0x96; add cx, 0x100; sub cx, 0x7e; inc bx
    <<\h2d, \h96, 0>>, <<\h81, \hc1, 0, 1>>, <<\h83, \he9, \h7e>>, <<\h43>>,
    \* dec bx; inc word [bx]; dec word [bx]; push 0x1111; push -1
    <<\h4b>>, <<\hff, 7>>, <<\hff, \h0f>>, <<\h68, \h11, \h11>>, <<\h6a, \hff>>,
    \* push word [bx]; pushf; popf; pop dx; pop dx; pop dx
    <<\hff, \h37>>, <<\h9c>>, <<\h9d>>, <<\h5a>>, <<\h5a>>, <<\h5a>>,
    \* call routine; mov ax, routine; call ax
    <<\he8, \h69, 0>>, <<\hb8, \he3, 0>>, <<\hff, \hd0>>,
    \* callf 0:far; callf [fars]
    <<\h9a, \he8, 0, 0, 0>>, <<\hff, \h1e, \hf6, 0>>,
    \* call32 routine32; jmp near; mov ax, on
    <<\h66, \he8, \h5b, 0, 0, 0>>, <<\he9, 5, 0>>, <<\hb8, \h9a, 0>>,
    \* jmp ax; jmpf [fars+4]; dec cx
    <<\hff, \he0>>, <<\hff, \h2e, \hfa, 0>>, <<\h49>>,
    \* jnz loop (near); cmp al, 1; jz fail; mov si, 0
    <<\h0f, \h85, \hfb, \hff>>, <<\h3c, 1>>, <<\h74, \h3f>>, <<\hbe, 0, 0>>,
    \* mov di, 16; mov cx, 3; rep movsw; std; lodsb
    <<\hbf, \h10, 0>>, <<\hb9, 3, 0>>, <<\hf3, \ha5>>, <<\hfd>>, <<\hac>>,
    \* cld; mov si, 0; mov di, 16; mov cx, 3
    <<\hfc>>, <<\hbe, 0, 0>>, <<\hbf, \h10, 0>>, <<\hb9, 3, 0>>,
    \* repz cmpsw ds; jnz fail; repnz cmpsb; jmp over; hlt
    <<\h3e, \hf3, \ha7>>, <<\h75, \h23>>, <<\hf2, \ha6>>, <<\heb, 1>>, <<\hf4>>,
    \* int 2; nop; int3; mov ax, [ebx]; mov ax, [esi+ebx]
    <<\hcd, 2>>, <<\h90>>, <<\hcc>>, <<\h67, \h8b, 3>>, <<\h67, \h8b, 4, \h1e>>,
    \* mov dx, es:[bx]; mov dx, ds; in al, dx; in ax, 0x60; out dx, ax
    <<\h26, \h8b, \h17>>, <<\h8c, \hda>>, <<\hec>>, <<\he5, \h60>>, <<\hef>>,
    \* out 0x61, ax; out dx, al; in ax, dx; mov eax, cr0; hlt; cli
    <<\he7, \h61>>, <<\hee>>, <<\hed>>, <<\h0f, \h20, \hc0>>, <<\hf4>>, <<\hfa>>,
    \* inc bx; hlt; push bp; mov bp, sp; leave; ret; retf
    <<\h43>>, <<\hf4>>, <<\h55>>, <<\h89, \he5>>, <<\hc9>>, <<\hc3>>, <<\hcb>>,
    \* ret32; pusha; in al, 0x60; popa; iret; push ax
    <<\h66, \hc3>>, <<\h60>>, <<\he4, \h60>>, <<\h61>>, <<\hcf>>, <<\h50>>,
    \* mov ax, [0]; pop ax; iret
    <<\ha1, 0, 0>>, <<\h58>>, <<\hcf>>
  >>,
  data |-> {
    \* vectors 1 and 2: the timer, a service
    [at |-> 4, bytes |-> <<\heb, 0, 0, 0, \hf0, 0, 0, 0>>],
    \* far pointers
    [at |-> 246, bytes |-> <<\he8, 0, 0, 0, \h91, 0, 0, 0>>],
    \* words
    [at |-> 512, bytes |-> <<\h34, \h12, 0, 0, 0, 0, 0, 0>>]
  }]

\* Protected mode with paging: a page is mapped twice and one is added to a table
\* before its first use.
Os == [
  start |-> 0, vector |-> 1, irqs |-> 1,
  gp |-> <<1193047, 2, 4405, 776, 700, 700, 1193047, 192>>,
  code |-> <<
    \* jmpf 0:begin; lgdt [gdtr]; mov eax, cr0
    <<\hea, 5, 0, 0, 0>>, <<\h0f, 1, \h16, \he3, 0>>, <<\h0f, \h20, \hc0>>,
    \* inc ax; mov cr0, eax; jmpf 8:prot
    <<\h40>>, <<\h0f, \h22, \hc0>>, <<\hea, \h16, 0, 8, 0>>,
    \* mov ax, 16; mov ds, ax; mov ss, ax; mov es, ax
    <<\h66, \hb8, \h10, 0>>, <<\h8e, \hd8>>, <<\h8e, \hd0>>, <<\h8e, \hc0>>,
    \* mov esp, 700; mov ebp, esp; lidt [idtr]
    <<\hbc, \hbc, 2, 0, 0>>, <<\h89, \he5>>, <<\h0f, 1, \h1d, \he9, 0, 0, 0>>,
    \* mov ax, 24; ltr ax
    <<\h66, \hb8, \h18, 0>>, <<\h0f, 0, \hd8>>,
    \* mov dword [dir+12], t3+7; mov eax, dir
    <<\hc7, 5, \h4c, 1, 0, 0, \hc7, 1, 0, 0>>, <<\hb8, \h40, 1, 0, 0>>,
    \* mov cr3, eax; mov eax, cr0; add eax, PG
    <<\h0f, \h22, \hd8>>, <<\h0f, \h20, \hc0>>, <<5, 0, 0, \h80, 0>>,
    \* mov cr0, eax; sti; mov ebx, 776; mov eax, [ebx]
    <<\h0f, \h22, \hc0>>, <<\hfb>>, <<\hbb, 8, 3, 0, 0>>, <<\h8b, 3>>,
    \* inc dword [ebx]; sub eax, [552]; jnz inc'd
    <<\hff, 3>>, <<\h2b, 5, \h28, 2, 0, 0>>, <<\h0f, \h85, 1, 0, 0, 0>>,
    \* hlt; mov dword [t3+4], 544+7
    <<\hf4>>, <<\hc7, 5, \hc4, 1, 0, 0, \h27, 2, 0, 0>>,
    \* mov ecx, [808]; mov ax, 32; mov fs, ax
    <<\h8b, \h0d, \h28, 3, 0, 0>>, <<\h66, \hb8, \h20, 0>>, <<\h8e, \he0>>,
    \* mov dl, fs:[1]; mov ax, 40; mov gs, ax
    <<\h64, \h8a, \h15, 1, 0, 0, 0>>, <<\h66, \hb8, \h28, 0>>, <<\h8e, \he8>>,
    \* mov dh, gs:[9]; callf 8:far
    <<\h65, \h8a, \h35, 9, 0, 0, 0>>, <<\h9a, \hce, 0, 0, 0, 8, 0>>,
    \* callf [fars]; jmpf [fars+6]; push ecx
    <<\hff, \h1d, \hd7, 0, 0, 0>>, <<\hff, \h2d, \hdd, 0, 0, 0>>, <<\h51>>,
    \* mov eax, [esp]; pop esi; mov ecx, 2
    <<\h8b, 4, \h24>>, <<\h5e>>, <<\hb9, 2, 0, 0, 0>>,
    \* mov edi, [ebx+ecx*4-4]; mov eax, [ecx*4+544]
    <<\h8b, \h7c, \h8b, \hfc>>, <<\h8b, 4, \h8d, \h20, 2, 0, 0>>,
    \* call routine; int 2; hlt; cli; inc edx; hlt
    <<\he8, 6, 0, 0, 0>>, <<\hcd, 2>>, <<\hf4>>, <<\hfa>>, <<\h42>>, <<\hf4>>,
    \* push ebp; mov ebp, esp; mov edi, [ebp+4]; leave; ret; retf
    <<\h55>>, <<\h89, \he5>>, <<\h8b, \h7d, 4>>, <<\hc9>>, <<\hc3>>, <<\hcb>>,
    \* pushad; in al, 0x60; popad; iret; push eax; pop eax; iret
    <<\h60>>, <<\he4, \h60>>, <<\h61>>, <<\hcf>>, <<\h50>>, <<\h58>>, <<\hcf>>
  >>,
  data |-> {
    \* far pointers; gdtr, idtr
    [at |-> 215, bytes |-> <<
      \hce, 0, 0, 0, 8, 0, \ha6, 0, 0, 0, 8, 0, \h2f, 0, \he0, 1, 0, 0,
      \h17, 0, \h10, 2, 0, 0>>],
    \* page directory
    [at |-> 320, bytes |-> <<\h67, 1, 0, 0, \h87, 1, 0, 0, \ha7, 1, 0, 0>>],
    \* page tables
    [at |-> 352, bytes |-> <<
      7, 0, 0, 0, \h27, 0, 0, 0, \h47, 0, 0, 0, \h67, 0, 0, 0, \h87, 0, 0,
      0, \ha7, 0, 0, 0, \hc7, 0, 0, 0, \he7, 0, 0, 0, 7, 1, 0, 0, \h27, 1,
      0, 0, \h47, 1, 0, 0, \h67, 1, 0, 0, \h87, 1, 0, 0, \ha7, 1, 0, 0,
      \hc7, 1, 0, 0, \he7, 1, 0, 0, 7, 2, 0, 0, \h27, 2, 0, 0, \h47, 2, 0,
      0, \h67, 2, 0, 0, \h87, 2, 0, 0, \ha7, 2, 0, 0>>],
    \* 
    [at |-> 448, bytes |-> <<\h27, 2, 0, 0>>],
    \* descriptors; code; data; task; data; data, down; gates; timer; service; words
    [at |-> 480, bytes |-> <<
      0, 0, 0, 0, 0, 0, 0, 0, \hff, \hff, 0, 0, 0, \h9a, \h40, 0, \hff,
      \hff, 0, 0, 0, \h92, \h40, 0, \h67, 0, 0, 0, 0, \h89, \h40, 0, \h0f,
      0, \h28, 2, 0, \h92, \h40, 0, \h10, 0, \h38, 2, 0, \h96, \h40, 0, 0,
      0, 0, 0, 0, 0, 0, 0, \hcf, 0, 8, 0, 0, \h86, 0, 0, \hd4, 0, 8, 0, 0,
      \h87, 0, 0, \h56, \h34, \h12, 0, \h0c, \h0b, \h0a, 0, \h11, \h11,
      \h11, 0>>]
  }]

\* Two tasks jump to each other, and the second returns to the first with NT.
Tasks == [
  start |-> 0, vector |-> 1, irqs |-> 0,
  gp |-> <<24, 0, 0, 7, 640, 0, 0, 0>>,
  code |-> <<
    \* jmpf 0:begin; lgdt [gdtr]; lidt [idtr]
    <<\hea, 5, 0, 0, 0>>, <<\h0f, 1, \h16, \h83, 0>>, <<\h0f, 1, \h1e, \h89, 0>>,
    \* mov eax, cr0; inc ax; mov cr0, eax
    <<\h0f, \h20, \hc0>>, <<\h40>>, <<\h0f, \h22, \hc0>>,
    \* jmpf 8:prot; mov ax, 16; mov ds, ax
    <<\hea, \h1b, 0, 8, 0>>, <<\h66, \hb8, \h10, 0>>, <<\h8e, \hd8>>,
    \* mov ss, ax; mov esp, 640; mov ax, 24
    <<\h8e, \hd0>>, <<\hbc, \h80, 2, 0, 0>>, <<\h66, \hb8, \h18, 0>>,
    \* ltr ax; mov ebx, 5; jmpf 32:0
    <<\h0f, 0, \hd8>>, <<\hbb, 5, 0, 0, 0>>, <<\hea, 0, 0, 0, 0, \h20, 0>>,
    \* inc ebx; jmpf [fars]; inc ebx; hlt
    <<\h43>>, <<\hff, \h2d, \h77, 0, 0, 0>>, <<\h43>>, <<\hf4>>,
    \* mov ax, 4; mov fs, ax; mov ecx, fs:[0]
    <<\h66, \hb8, 4, 0>>, <<\h8e, \he0>>, <<\h64, \h8b, \h0d, 0, 0, 0, 0>>,
    \* mov ax, 16; mov fs, ax; mov ebx, 9
    <<\h66, \hb8, \h10, 0>>, <<\h8e, \he0>>, <<\hbb, 9, 0, 0, 0>>,
    \* jmpf [fars+6]; cmp ebx, 9; jnz 0; pushfd
    <<\hff, \h2d, \h7d, 0, 0, 0>>, <<\h83, \hfb, 9>>, <<\h75, \hdd>>, <<\h9c>>,
    \* pop eax; add eax, NT; push eax; push 8
    <<\h58>>, <<5, 0, \h40, 0, 0>>, <<\h50>>, <<\h6a, 8>>,
    \* push second; iret
    <<\h68, \h44, 0, 0, 0>>, <<\hcf>>
  >>,
  data |-> {
    \* fars; gdtr, idtr
    [at |-> 119, bytes |-> <<
      0, 0, 0, 0, \h20, 0, 0, 0, 0, 0, \h18, 0, \h2f, 0, 0, 1, 0, 0, 0, 0,
      0, 0, 0, 0>>],
    \* descriptors; code; data; task; task; ldt; ldt
    [at |-> 256, bytes |-> <<
      0, 0, 0, 0, 0, 0, 0, 0, \hff, \hff, 0, 0, 0, \h9a, \h40, 0, \hff,
      \hff, 0, 0, 0, \h92, \h40, 0, \h67, 0, \h38, 1, 0, \h89, \h40, 0,
      \h67, 0, \ha0, 1, 0, \h89, \h40, 0, 7, 0, \h30, 1, 0, \h82, \h40, 0,
      3, 0, 8, 2, 0, \h92, \h40, 0>>],
    \* tss 2; word
    [at |-> 416, bytes |-> <<
      0, 0, 0, 0, 0, 0, 0, 0, 0, 0, 0, 0, 0, 0, 0, 0, 0, 0, 0, 0, 0, 0, 0,
      0, 0, 0, 0, 0, 0, 0, 0, 0, \h44, 0, 0, 0, 2, 0, 0, 0, 0, 0, 0, 0, 0,
      0, 0, 0, 0, 0, 0, 0, 0, 0, 0, 0, \h44, 2, 0, 0, 0, 0, 0, 0, 0, 0, 0,
      0, 0, 0, 0, 0, \h10, 0, 0, 0, 8, 0, 0, 0, \h10, 0, 0, 0, \h10, 0, 0,
      0, \h10, 0, 0, 0, \h10, 0, 0, 0, \h28, 0, 0, 0, 0, 0, 0, 0, 7, 7, 7, 0>>]
  }]

\* Ring 3, entered by a far return and left by interrupts.  The stack of ring 0 has
\* a descriptor of ring 3: it is loaded and used before CS is.
User == [
  start |-> 0, vector |-> 1, irqs |-> 1,
  gp |-> <<8, 7, 0, 0, 460, 0, 0, 0>>,
  code |-> <<
    \* jmpf 0:begin; lgdt [gdtr]; lidt [idtr]
    <<\hea, 5, 0, 0, 0>>, <<\h0f, 1, \h16, \h5d, 0>>, <<\h0f, 1, \h1e, \h63, 0>>,
    \* mov eax, cr0; inc ax; mov cr0, eax
    <<\h0f, \h20, \hc0>>, <<\h40>>, <<\h0f, \h22, \hc0>>,
    \* jmpf 8:prot; mov ax, 16; mov ds, ax
    <<\hea, \h1b, 0, 8, 0>>, <<\h66, \hb8, \h10, 0>>, <<\h8e, \hd8>>,
    \* mov ss, ax; mov ax, 40; ltr ax
    <<\h8e, \hd0>>, <<\h66, \hb8, \h28, 0>>, <<\h0f, 0, \hd8>>,
    \* mov esp, 540; push 35; push 600
    <<\hbc, \h1c, 2, 0, 0>>, <<\h6a, \h23>>, <<\h68, \h58, 2, 0, 0>>,
    \* push 27; push user; retf; mov ax, 35
    <<\h6a, \h1b>>, <<\h68, \h3e, 0, 0, 0>>, <<\hcb>>, <<\h66, \hb8, \h23, 0>>,
    \* mov ds, ax; sti; mov eax, 7; push eax; int 2
    <<\h8e, \hd8>>, <<\hfb>>, <<\hb8, 7, 0, 0, 0>>, <<\h50>>, <<\hcd, 2>>,
    \* inc eax; pop ecx; int 3; pushad; in al, 0x60; popad
    <<\h40>>, <<\h59>>, <<\hcd, 3>>, <<\h60>>, <<\he4, \h60>>, <<\h61>>,
    \* iret; push eax; mov eax, esp; pop eax; iret; cli; hlt
    <<\hcf>>, <<\h50>>, <<\h89, \he0>>, <<\h58>>, <<\hcf>>, <<\hfa>>, <<\hf4>>
  >>,
  data |-> {
    \* gdtr, idtr
    [at |-> 93, bytes |-> <<\h2f, 0, \hb0, 0, 0, 0, \h1f, 0, \he0, 0, 0, 0>>],
    \* descriptors; code; data; code 3; data 3; task; gates; timer; service; end; tss
    [at |-> 176, bytes |-> <<
      0, 0, 0, 0, 0, 0, 0, 0, \hff, \hff, 0, 0, 0, \h9a, \h40, 0, \hff,
      \hff, 0, 0, 0, \h92, \h40, 0, \hff, \hff, 0, 0, 0, \hfa, \h40, 0,
      \hff, \hff, 0, 0, 0, \hf2, \h40, 0, \h67, 0, 0, 1, 0, \h89, \h40, 0,
      0, 0, 0, 0, 0, 0, 0, 0, \h51, 0, 8, 0, 0, \h86, 0, 0, \h56, 0, 8, 0,
      0, \he7, 0, 0, \h5b, 0, 8, 0, 0, \he6, 0, 0, 0, 0, 0, 0, \he0, 1, 0,
      0, \h23, 0, 0, 0, 0, 0, 0, 0, 0, 0, 0, 0, 0, 0, 0, 0, 0, 0, 0, 0, 0,
      0, 0, 0, 0, 0, 0, 0, 0, 0, 0, 0, 0, 0, 0, 0, 0, 0, 0, 0, 0, 0, 0, 0,
      0, 0, 0, 0, 0, 0, 0, 0, 0, 0, 0, 0, 0, 0, 0, 0, 0, 0, 0, 0, \h10, 0,
      0, 0, 8, 0, 0, 0, \h10, 0, 0, 0, \h10, 0, 0, 0, \h10, 0, 0, 0, \h10,
      0, 0, 0, 0, 0, 0, 0, 0, 0, 0, 0>>]
  }]

\* Where the code of a guest begins, and where its k-th instruction does.
StartOf(l, k) == FoldLeft(LAMBDA n, i : n + Len(i), l.start, SubSeq(l.code, 1, k - 1))

Bytes(p) == {<<p.at + k - 1, p.bytes[k]>> : k \in DOMAIN p.bytes}

Assembled(l) ==
  LET starts == [k \in 1..(Len(l.code) + 1) |-> StartOf(l, k)]
      coded == {[at |-> starts[k], bytes |-> l.code[k]] : k \in DOMAIN l.code}
      image == UNION {Bytes(p) : p \in l.data \cup coded}
      used == {w[1] : w \in image}
  IN [start |-> l.start, vector |-> l.vector, irqs |-> l.irqs, gp |-> l.gp,
      steps |-> {<<starts[k], starts[k + 1]>> : k \in DOMAIN l.code},
      ram |-> [a \in 0..(RamSize - 1) |->
                IF a \in used THEN (CHOOSE w \in image : w[1] = a)[2] ELSE 0]]

MCGuests == {Assembled(l) : l \in {Bios, Os, Tasks, User}}
================================================================================
