-------------------------- MODULE MCBlockDispatch --------------------------
(* Block dispatch on a small GPU with the limits of gpu.config for an SM.    *)
EXTENDS BlockDispatch

K(size, shared, regs) == [m_block_size |-> size, m_shared_mem_bytes |-> shared, m_num_registers |-> regs]

\* Kernels limited by threads, registers and shared memory, each with a size that
\* is rounded; one that uses neither registers nor shared memory; and one that
\* does not fit at all.
MCKernelInfos == {K(513, 0, 16), K(480, 1000, 65), K(33, 40000, 255), K(1024, 0, 0), K(64, 102401, 32)}
=============================================================================
