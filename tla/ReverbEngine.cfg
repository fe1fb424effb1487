CONSTANTS
    Types = {ir, fdn}
    IR = ir
    NoType = notype
    Devices = {cpu, gpu}
    Cpu = cpu
    NoFile = nofile
    Trim0 = t0
    Steps = 2
    Files = {f1, f2}
    Trims = {t0}
SPECIFICATION Spec
INVARIANTS TypeOK NoGainJump NoStaleIR NoStaleDevice
PROPERTIES SwitchAtSilence SilenceEnds
