------------------------------- MODULE MCCpu -------------------------------
EXTENDS Cpu

Edges == {0, 1, 127, 128, 255}

ControlOpcodes == {"JSR", "RTS", "RTI", "BRK", "PHP", "PLA", "CLI", "SEC"}

MCPrograms ==
    [data |->
        [opcodes |-> ReadOpcodes \cup ModifyOpcodes \cup InternalOpcodes
                     \cup BranchOpcodes \cup {"STA", "STX", "STY", "SAX", "SHY",
                      "SHX", "TXS", "PHA", "PLP", "JMP"},
         values |-> Edges, regs |-> {1, 127, 255}, flags |-> {"CARRY"}, sps |-> {0}, pcs |-> {127},
         steps |-> 1, interrupts |-> FALSE],
     control |->
        [opcodes |-> ControlOpcodes, values |-> {255}, regs |-> {1}, flags |-> {"IRQ_DIS"},
         sps |-> {1, 253}, pcs |-> {255}, steps |-> 4, interrupts |-> TRUE],
     \* Deep enough to fill the stack page.
     deep |->
        [opcodes |-> {"BRK"}, values |-> {255}, regs |-> {1}, flags |-> {}, sps |-> {1},
         pcs |-> {255}, steps |-> 90, interrupts |-> FALSE]]

=============================================================================
